---------------------------- MODULE Spec2Model ----------------------------
(***************************************************************************)
(* A model of astra_gui.utils.symmetry_module.Symmetry: the point-group    *)
(* catalogue (generators, irreps, dipoles, multiplication tables), its     *)
(* constructor with the label normalisation and the error logging, and     *)
(* the queries mult, __eq__ and get_all_symmetry_elements; of                *)
(* TimeIndependentNotebook.group_cap_strengths_by_sym and get_cap_strengths *)
(* (time_independent_notebook.py); and of logger_module.setup_logger.       *)
(* Each component has its own variables and its own specification, which    *)
(* leaves the variables of the other components as they are.                *)
(*                                                                         *)
(* Python strings on which the code works character by character (group    *)
(* labels, generators, symmetry elements) are sequences of one-character   *)
(* strings; irrep labels, which the code only compares and looks up, are   *)
(* TLA+ strings.  Python lists are sequences; list positions are 0-based   *)
(* in the operators that model list.index and list subscription.           *)
(***************************************************************************)
EXTENDS Integers, Sequences, FiniteSets, TLC

VARIABLES
    loggerClass,   \* class of symmetry_module.logger: "Logger" or "CustomLogger"
    sym,           \* a Symmetry object held by the caller, or None
    other,         \* a second object held by the caller, or None
    call,          \* the last call made and how it ended
    \* group_cap_strengths_by_sym
    cap_strengths,     \* the argument: a dict, as the sequence of its items
    mult_prefix,       \* the argument mult (mult names Symmetry.mult here)
    new_cap_strengths, \* the call's outcome: the dict returned
    regrouped,         \* the outcome of the call with the 'ALL' bucket fed back
    \* get_cap_strengths
    state_syms,    \* what pages[0].get_computed_syms() returns
    paths,         \* for each state symmetry, the paths found under it
    capCall,       \* the last call of get_cap_strengths and what it returned
    \* setup_logger
    rootLevel,     \* the level of the root logger
    rootHandlers,  \* the handlers of the root logger
    setupCall,     \* the last call of setup_logger
    \* CustomLogger.error
    emitted,  \* the records the logger has handed to its handlers
    process,  \* the Python process: running, or exited with a code
    caller,   \* the code that calls a logging method: where it is
    \* SshClient.path_exists
    remoteFs,    \* the remote file system: what a stat of each path meets
    client,      \* SshClient.client: None or a connected paramiko client
    existsCall,  \* the last call of path_exists and how it ended
    \* main.Astra
    ssh,        \* whether Astra.ssh_client is set (args.ssh)
    astra,      \* the Astra object: running_directory, the status bar's default message, the notebooks
    cwd,        \* the working directory of the process
    files,      \* the directories that exist, each with the names of its entries
    astraCall,  \* the last call of a method of Astra and how it ended
    \* StatusBar
    bar,        \* the StatusBar: its text, default_message, message_queue, is_displaying_message
    timers,     \* the number of root.after callbacks of reset_message not yet fired
    requested,  \* the messages passed to show_message, in call order
    displayed,  \* the messages put on the label by show_next_message, in order
    \* log_operation
    wrapped,   \* the call of the decorated function in progress: position, arguments, result
    timeline,  \* what the call has done so far, in order
    \* Notification
    notification,  \* the Notification object: method, string and the attributes set later
    notifFile,     \* the text of input_file, or None if there is no file
    notifCall      \* the last call of save, load or command: arguments, state before, result

symVars == <<loggerClass, sym, other, call>>

groupVars == <<cap_strengths, mult_prefix, new_cap_strengths, regrouped>>

capVars == <<state_syms, paths, capCall>>

logVars == <<rootLevel, rootHandlers, setupCall>>

errVars == <<emitted, process, caller>>

sshVars == <<remoteFs, client, existsCall>>

astraVars == <<ssh, astra, cwd, files, astraCall>>

barVars == <<bar, timers, requested, displayed>>

opVars == <<wrapped, timeline>>

notifVars == <<notification, notifFile, notifCall>>

vars == <<symVars, groupVars, capVars, logVars, errVars, sshVars, astraVars, barVars, opVars, notifVars>>

\* what the specification of one component leaves alone
outsideSymmetry == <<groupVars, capVars, logVars, errVars, sshVars, astraVars, barVars, opVars, notifVars>>

outsideGrouping == <<symVars, capVars, logVars, errVars, sshVars, astraVars, barVars, opVars, notifVars>>

outsideCap == <<symVars, groupVars, logVars, errVars, sshVars, astraVars, barVars, opVars, notifVars>>

outsideLogger == <<symVars, groupVars, capVars, errVars, sshVars, astraVars, barVars, opVars, notifVars>>

outsideError == <<symVars, groupVars, capVars, logVars, sshVars, astraVars, barVars, opVars, notifVars>>

outsideSsh == <<symVars, groupVars, capVars, logVars, errVars, astraVars, barVars, opVars, notifVars>>

outsideAstra == <<symVars, groupVars, capVars, logVars, errVars, sshVars, barVars, opVars, notifVars>>

outsideStatusBar == <<symVars, groupVars, capVars, logVars, errVars, sshVars, astraVars, opVars, notifVars>>

outsideOperation == <<symVars, groupVars, capVars, logVars, errVars, sshVars, astraVars, barVars, notifVars>>

outsideNotification == <<symVars, groupVars, capVars, logVars, errVars, sshVars, astraVars, barVars, opVars>>

None == [type |-> "NoneType"]

\* a call not made yet, and a call that returned value
NotReturned == [returned |-> FALSE]

Returned(value) == [returned |-> TRUE, value |-> value]

\* the other components at rest
SymIdle ==
    /\ loggerClass = "Logger"
    /\ sym = None
    /\ other = None
    /\ call = [op |-> "start", outcome |-> "ok"]

GroupIdle ==
    /\ cap_strengths = <<>>
    /\ mult_prefix = <<>>
    /\ new_cap_strengths = NotReturned
    /\ regrouped = NotReturned

CapIdle ==
    /\ state_syms = <<>>
    /\ paths = <<>>
    /\ capCall = NotReturned

\* the root logger as the logging module creates it
LogIdle ==
    /\ rootLevel = "WARNING"
    /\ rootHandlers = <<>>
    /\ setupCall = NotReturned

\* a running process that has logged nothing
ErrIdle ==
    /\ emitted = <<>>
    /\ process = [alive |-> TRUE]
    /\ caller = [pc |-> "idle"]

\* no ssh client and no call
SshIdle ==
    /\ remoteFs = <<>>
    /\ client = None
    /\ existsCall = NotReturned

\* no Astra object
AstraIdle ==
    /\ ssh = FALSE
    /\ astra = None
    /\ cwd = ""
    /\ files = <<>>
    /\ astraCall = NotReturned

\* no status bar
BarIdle ==
    /\ bar = None
    /\ timers = 0
    /\ requested = <<>>
    /\ displayed = <<>>

\* no decorated function called
OpIdle ==
    /\ wrapped = [pc |-> "idle"]
    /\ timeline = <<>>

\* no Notification object
NotifIdle ==
    /\ notification = None
    /\ notifFile = None
    /\ notifCall = NotReturned

-----------------------------------------------------------------------------
(* str.capitalize on the characters that occur in the labels                *)

Upper(c) ==
    CASE c = "c" -> "C"
      [] c = "s" -> "S"
      [] c = "i" -> "I"
      [] c = "d" -> "D"
      [] c = "v" -> "V"
      [] c = "h" -> "H"
      [] OTHER -> c

Lower(c) ==
    CASE c = "C" -> "c"
      [] c = "S" -> "s"
      [] c = "I" -> "i"
      [] c = "D" -> "d"
      [] c = "V" -> "v"
      [] c = "H" -> "h"
      [] OTHER -> c

CapitalizeFirstOnly(s) ==
    [i \in 1..Len(s) |-> IF i = 1 THEN Upper(s[i]) ELSE s[i]]

\* str.capitalize(): first character upper-cased, the rest lower-cased
Capitalize(s) ==
    [i \in 1..Len(s) |-> IF i = 1 THEN Upper(s[i]) ELSE Lower(s[i])]

-----------------------------------------------------------------------------
(* The class data                                                           *)

C1  == <<"C", "1">>
Cs  == <<"C", "s">>
C2  == <<"C", "2">>
Ci  == <<"C", "i">>
C2v == <<"C", "2", "v">>
C2h == <<"C", "2", "h">>
D2  == <<"D", "2">>
D2h == <<"D", "2", "h">>

\* Symmetry.GROUPS, in order ('C2h' is commented out)
GROUPS == <<C1, Cs, C2, Ci, C2v, D2, D2h>>

GroupSet == {GROUPS[i] : i \in DOMAIN GROUPS}

X == <<"X">>
Y == <<"Y">>
Z == <<"Z">>

generators ==
    (C1  :> <<>>) @@
    (Cs  :> <<Z>>) @@
    (C2  :> << <<"X", "Y">> >>) @@
    (Ci  :> << <<"X", "Y", "Z">> >>) @@
    (C2v :> <<X, Y>>) @@
    (C2h :> <<Z, <<"X", "Y">> >>) @@
    (D2  :> << <<"X", "Z">>, <<"Y", "Z">> >>) @@
    (D2h :> <<X, Y, Z>>)

irreps ==
    (C1  :> <<"A">>) @@
    (Cs  :> <<"A'", "A''">>) @@
    (C2  :> <<"A", "B">>) @@
    (Ci  :> <<"Ag", "Au">>) @@
    (C2v :> <<"A1", "B1", "B2", "A2">>) @@
    (C2h :> <<"Ag", "Au", "Bu", "Bg">>) @@
    (D2  :> <<"A", "B3", "B2", "B1">>) @@
    (D2h :> <<"Ag", "B3u", "B2u", "B1g", "B1u", "B2g", "B3g", "Au">>)

dipoles ==
    (C1  :> <<"A", "A", "A">>) @@
    (Cs  :> <<"A'", "A'", "A''">>) @@
    (C2  :> <<"B", "B", "A">>) @@
    (Ci  :> <<"Au", "Au", "Au">>) @@
    (C2v :> <<"B1", "B2", "A1">>) @@
    (C2h :> <<"Bu", "Bu", "Au">>) @@
    (D2  :> <<"B3", "B2", "B1">>) @@
    (D2h :> <<"B3u", "B2u", "B1u">>)

table ==
    (C1  :> << <<"A">> >>) @@
    (Cs  :> << <<"A'", "A''">>, <<"A''", "A'">> >>) @@
    (C2  :> << <<"A", "B">>, <<"B", "A">> >>) @@
    (Ci  :> << <<"Ag", "Au">>, <<"Au", "Ag">> >>) @@
    (C2v :> << <<"A1", "B1", "B2", "A2">>,
               <<"B1", "A1", "A2", "B2">>,
               <<"B2", "A2", "A1", "B1">>,
               <<"A2", "B2", "B1", "A1">> >>) @@
    (C2h :> << <<"Ag", "Au", "Bu", "Bg">>,
               <<"Au", "Ag", "Bg", "Bu">>,
               <<"Bu", "Bg", "Ag", "Au">>,
               <<"Bg", "Bu", "Au", "Ag">> >>) @@
    (D2  :> << <<"A", "B3", "B2", "B1">>,
               <<"B3", "A", "B1", "B2">>,
               <<"B2", "B1", "A", "B3">>,
               <<"B1", "B2", "B3">> >>) @@
    (D2h :> << <<"Ag", "B3u", "B2u", "B1g", "B1u", "B2g", "B3u", "Au">>,
               <<"B3u", "Ag", "B1g", "B2u", "B2g", "B1u", "Au", "B3g">>,
               <<"B2u", "B1g", "Ag", "B3u", "B3g", "Au", "B1u", "B2g">>,
               <<"B1g", "B2u", "B3u", "Ag", "Au", "B3g", "B2g", "B1u">>,
               <<"B1u", "B2g", "B3g", "Au", "Ag", "B3u", "B2u", "B1g">>,
               <<"B2g", "B1u", "Au", "B3g", "B3u", "Ag", "B1g", "B2u">>,
               <<"B3g", "Au", "B1u", "B2g", "B2u", "B1g", "Ag", "B3u">>,
               <<"Au", "B3g", "B2g", "B1u", "B1g", "B2u", "B3u", "Ag">> >>)

\* the four getters index their dictionary with self.group
get_generators(group) == generators[group]

get_irrep_without_sentinel(group) == irreps[group]

get_irrep(group) == <<"ALL">> \o irreps[group]

get_dipoles_from_next_entry(group) ==
    IF group = D2 THEN dipoles[D2h] ELSE dipoles[group]

get_dipoles(group) == dipoles[group]

get_mult_table(group) == table[group]

-----------------------------------------------------------------------------
(* Symmetry.__init__                                                        *)

\* The constructor's outcome for a label under a logger class.
\*   "SystemExit": CustomLogger.error ended the process;
\*   "KeyError":   the first dictionary lookup missed;
\*   "ok":         obj is the new object.
NewSymmetry(label, cls) ==
    LET group == Capitalize(label) IN
    IF group \notin GroupSet /\ cls = "CustomLogger"
    THEN [outcome |-> "SystemExit", logged |-> TRUE, obj |-> None]
    ELSE IF group \notin DOMAIN generators
    THEN [outcome |-> "KeyError", logged |-> group \notin GroupSet, obj |-> None]
    ELSE [outcome |-> "ok",
          logged  |-> group \notin GroupSet,
          obj     |-> [type       |-> "Symmetry",
                       group      |-> group,
                       generators |-> get_generators(group),
                       irrep      |-> get_irrep(group),
                       dipole     |-> get_dipoles(group),
                       mult_table |-> get_mult_table(group)]]

-----------------------------------------------------------------------------
(* Python list operations                                                   *)

\* list.index(x): the 0-based position of the first item equal to x;
\* -1 stands for the ValueError raised when there is none (the callers
\* below test for it before they use the position)
NotFound == 0 - 1

ListIndex(list, x) ==
    IF \E k \in DOMAIN list : list[k] = x
    THEN (CHOOSE k \in DOMAIN list :
              list[k] = x /\ \A m \in 1..(k - 1) : list[m] # x) - 1
    ELSE NotFound

\* list[i] with a 0-based subscript: a negative subscript counts from the end
InRange(list, i) == (0 - Len(list)) <= i /\ i < Len(list)

Subscript(list, i) == IF i >= 0 THEN list[i + 1] ELSE list[Len(list) + i + 1]

-----------------------------------------------------------------------------
(* Symmetry.mult                                                            *)

NoIrrep == "<no value>"

\* self.mult_table[self.irrep.index(i) - 1][self.irrep.index(j) - 1]
mult(self, i_irrep, j_irrep) ==
    IF ListIndex(self.irrep, i_irrep) = NotFound
       \/ ListIndex(self.irrep, j_irrep) = NotFound
    THEN [outcome |-> "ValueError", value |-> NoIrrep]
    ELSE LET i_ind == ListIndex(self.irrep, i_irrep) - 1
             j_ind == ListIndex(self.irrep, j_irrep) - 1
         IN  IF ~InRange(self.mult_table, i_ind)
             THEN [outcome |-> "IndexError", value |-> NoIrrep]
             ELSE IF ~InRange(Subscript(self.mult_table, i_ind), j_ind)
             THEN [outcome |-> "IndexError", value |-> NoIrrep]
             ELSE [outcome |-> "ok",
                   value |-> Subscript(Subscript(self.mult_table, i_ind), j_ind)]

\* Symmetry.__eq__
Eq(self, obj) ==
    IF obj.type = "Symmetry" THEN self.group = obj.group ELSE FALSE

-----------------------------------------------------------------------------
(* Symmetry.get_all_symmetry_elements                                       *)

RECURSIVE CombinationsFrom(_, _, _), CombinationsStarting(_, _, _, _)

\* itertools.combinations over the positions lo..n, r at a time, in the
\* order the iterator yields them: as tuples of increasing positions
CombinationsFrom(lo, n, r) ==
    IF r = 0 THEN << <<>> >>
    ELSE CombinationsStarting(lo, lo, n, r)

\* the combinations whose first position is first, then first + 1, ...
CombinationsStarting(first, lo, n, r) ==
    IF first > n - r + 1 THEN <<>>
    ELSE LET tails == CombinationsFrom(first + 1, n, r - 1)
         IN  [k \in 1..Len(tails) |-> <<first>> \o tails[k]]
             \o CombinationsStarting(first + 1, lo, n, r)

RECURSIVE Join(_)

\* ''.join(comb)
Join(strs) == IF strs = <<>> THEN <<>> ELSE Head(strs) \o Join(Tail(strs))

RECURSIVE CounterKeys(_)

\* the keys of Counter(s), in insertion order: each character at its first
\* occurrence
CounterKeys(s) ==
    IF s = <<>> THEN <<>>
    ELSE LET front == CounterKeys(SubSeq(s, 1, Len(s) - 1))
             last  == s[Len(s)]
         IN  IF \E k \in DOMAIN front : front[k] = last
             THEN front ELSE Append(front, last)

\* Counter(s)[char]
Counts(s, char) == Cardinality({k \in DOMAIN s : s[k] = char})

ElementPresentOnly(comb) == CounterKeys(Join(comb))

\* ''.join(char for char in counts if counts[char] % 2 == 1)
Element(comb) ==
    LET joined == Join(comb)
        IsOdd(char) == Counts(joined, char) % 2 = 1
    IN  SelectSeq(CounterKeys(joined), IsOdd)

RECURSIVE CombinationsBySize(_, _)

\* the two loops: for r in range(size, n + 1): for comb in combinations(.., r)
CombinationsBySize(n, size) ==
    IF size > n THEN <<>>
    ELSE CombinationsFrom(1, n, size) \o CombinationsBySize(n, size + 1)

get_all_symmetry_elements(self) ==
    LET gens  == self.generators
        combs == CombinationsBySize(Len(gens), 1)
    IN  [k \in 1..Len(combs) |->
            Element([m \in 1..Len(combs[k]) |-> gens[combs[k][m]]])]

-----------------------------------------------------------------------------
(* The callers: what they pass in                                           *)

RECURSIVE CaseVariants(_)

\* every upper/lower-case spelling of a label
CaseVariants(label) ==
    IF label = <<>> THEN {<<>>}
    ELSE {<<c>> \o rest : c \in {Upper(Head(label)), Lower(Head(label))},
                          rest \in CaseVariants(Tail(label))}

\* labels that name no group of the tables
C3  == <<"C", "3">>
D2d == <<"D", "2", "d">>

Labels ==
    UNION {CaseVariants(g) : g \in GroupSet \cup {C2h}} \cup {C3, D2d, <<>>}

TrueIrreps(self) == {self.irrep[k] : k \in 2..Len(self.irrep)}

\* irrep arguments: the object's own labels (the sentinel among them), a
\* label of other groups and a label of no group
IrrepArgs(self) ==
    {self.irrep[k] : k \in DOMAIN self.irrep} \cup {"B1u", "E"}

-----------------------------------------------------------------------------
(* The state machine                                                        *)

Running == call.outcome # "SystemExit"

\* symmetry_module.logger is created by logging.getLogger at import: it is a
\* CustomLogger (whose error() exits the process) if logger_module was
\* imported before, and a plain logging.Logger (whose error() returns) if not
SymInit ==
    /\ loggerClass \in {"Logger", "CustomLogger"}
    /\ sym = None
    /\ other = None
    /\ call = [op |-> "start", outcome |-> "ok"]
    /\ GroupIdle
    /\ CapIdle
    /\ LogIdle
    /\ ErrIdle
    /\ SshIdle
    /\ AstraIdle
    /\ BarIdle
    /\ OpIdle
    /\ NotifIdle

\* sym = Symmetry(label)
Construct(label) ==
    /\ Running
    /\ LET r == NewSymmetry(label, loggerClass) IN
       /\ sym' = IF r.outcome = "ok" THEN r.obj ELSE sym
       /\ call' = [op |-> "Symmetry", target |-> "sym", label |-> label,
                   outcome |-> r.outcome, logged |-> r.logged]
    /\ UNCHANGED <<loggerClass, other, outsideSymmetry>>

\* other = Symmetry(label)
ConstructOther(label) ==
    /\ Running
    /\ LET r == NewSymmetry(label, loggerClass) IN
       /\ other' = IF r.outcome = "ok" THEN r.obj ELSE other
       /\ call' = [op |-> "Symmetry", target |-> "other", label |-> label,
                   outcome |-> r.outcome, logged |-> r.logged]
    /\ UNCHANGED <<loggerClass, sym, outsideSymmetry>>

\* sym.mult(i_irrep, j_irrep)
Mult(i_irrep, j_irrep) ==
    /\ Running
    /\ sym.type = "Symmetry"
    /\ LET r == mult(sym, i_irrep, j_irrep) IN
       call' = [op |-> "mult", i_irrep |-> i_irrep, j_irrep |-> j_irrep,
                outcome |-> r.outcome, value |-> r.value]
    /\ UNCHANGED <<loggerClass, sym, other, outsideSymmetry>>

\* sym == other
Equals ==
    /\ Running
    /\ sym.type = "Symmetry"
    /\ call' = [op |-> "__eq__", outcome |-> "ok", value |-> Eq(sym, other)]
    /\ UNCHANGED <<loggerClass, sym, other, outsideSymmetry>>

\* sym.get_all_symmetry_elements()
GetAllSymmetryElements ==
    /\ Running
    /\ sym.type = "Symmetry"
    /\ call' = [op |-> "get_all_symmetry_elements", outcome |-> "ok",
                value |-> get_all_symmetry_elements(sym)]
    /\ UNCHANGED <<loggerClass, sym, other, outsideSymmetry>>

SymNext ==
    \/ \E label \in Labels : Construct(label)
    \/ \E label \in Labels : ConstructOther(label)
    \/ /\ sym.type = "Symmetry"
       /\ \E i_irrep \in IrrepArgs(sym), j_irrep \in IrrepArgs(sym) :
              Mult(i_irrep, j_irrep)
    \/ Equals
    \/ GetAllSymmetryElements

SpecSymmetry == SymInit /\ [][SymNext]_vars

-----------------------------------------------------------------------------
(* Properties of the constructor                                            *)

Supported(obj) == obj.type = "Symmetry" /\ obj.group \in GroupSet

\* every spelling that differs from a supported label in case only
SupportedSpellings == UNION {CaseVariants(g) : g \in GroupSet}

Target == IF call.target = "sym" THEN sym ELSE other

\* C1: a label whose case-normalised form is none of the 7 supported groups
\* makes the constructor fail and no object is built from it; no object the
\* caller ever holds carries the data of C2h or of any other label outside
\* Symmetry.GROUPS.
C1_InvalidGroupRejected ==
    /\ (call.op = "Symmetry" /\ call.label \notin SupportedSpellings)
           => call.outcome # "ok"
    /\ sym.type = "Symmetry" => sym.group \in GroupSet
    /\ other.type = "Symmetry" => other.group \in GroupSet

-----------------------------------------------------------------------------
(* Properties of the multiplication table                                   *)

MultOfTrueIrreps ==
    /\ call.op = "mult"
    /\ Supported(sym)
    /\ call.i_irrep \in TrueIrreps(sym)
    /\ call.j_irrep \in TrueIrreps(sym)

Identity(self) == self.irrep[2]

\* C2: for a supported group and true irreps a, b the product a*b ends as
\* the product b*a does: the multiplication table is symmetric.
C2_MultCommutative ==
    MultOfTrueIrreps =>
        [outcome |-> call.outcome, value |-> call.value]
            = mult(sym, call.j_irrep, call.i_irrep)

\* C3: for a supported group the first true irrep e is a two-sided identity:
\* mult(e, a) and mult(a, e) both return a.
C3_FirstIrrepIsIdentity ==
    MultOfTrueIrreps =>
        /\ call.i_irrep = Identity(sym)
               => call.outcome = "ok" /\ call.value = call.j_irrep
        /\ call.j_irrep = Identity(sym)
               => call.outcome = "ok" /\ call.value = call.i_irrep

IsPermutationOf(list, set) ==
    /\ Len(list) = Cardinality(set)
    /\ {list[k] : k \in DOMAIN list} = set

TableIsLatinSquare(self) ==
    LET n == Len(self.irrep) - 1 IN
    /\ Len(self.mult_table) = n
    /\ \A r \in 1..n : IsPermutationOf(self.mult_table[r], TrueIrreps(self))
    /\ \A c \in 1..n :
           /\ \A r \in 1..n : c \in DOMAIN self.mult_table[r]
           /\ IsPermutationOf([r \in 1..n |-> self.mult_table[r][c]],
                              TrueIrreps(self))

\* C4: the table of a supported group with n true irreps is n by n and each
\* of its rows and columns is a permutation of the n true irreps.
C4_RowsAndColumnsArePermutations ==
    /\ Supported(sym) => TableIsLatinSquare(sym)
    /\ Supported(other) => TableIsLatinSquare(other)

\* C5: for a supported group and a true irrep a, mult(a, a) returns the
\* first true irrep.
C5_DiagonalIsIdentity ==
    (MultOfTrueIrreps /\ call.i_irrep = call.j_irrep) =>
        call.outcome = "ok" /\ call.value = Identity(sym)

\* C6: mult fails, and returns no irrep, when one of its arguments is not a
\* true irrep of the group; the sentinel ALL is not a true irrep.
C6_UnknownIrrepRejected ==
    (/\ call.op = "mult"
     /\ \/ call.i_irrep \notin TrueIrreps(sym)
        \/ call.j_irrep \notin TrueIrreps(sym))
        => call.outcome # "ok" /\ call.value = NoIrrep

-----------------------------------------------------------------------------
(* Properties of the catalogue                                              *)

SentinelThenPowerOfTwo(self) ==
    /\ self.irrep[1] = "ALL"
    /\ \A k \in 2..Len(self.irrep) : self.irrep[k] # "ALL"
    /\ Len(self.irrep) - 1 = 2 ^ Len(self.generators)

\* C7: the irrep list of a supported group starts with ALL, holds ALL
\* nowhere else, and has 2 ^ (number of generators) further entries.
C7_IrrepCountIsPowerOfTwo ==
    /\ Supported(sym) => SentinelThenPowerOfTwo(sym)
    /\ Supported(other) => SentinelThenPowerOfTwo(other)

C7_Witness ==
    /\ Supported(sym)
    /\ Len(sym.generators) = 3
    /\ Len(sym.irrep) = 9

\* C8: a label that differs from a supported label L in case only builds an
\* object with the generators, irreps, dipoles and table of L that compares
\* equal to the one built from L; objects of two different supported groups
\* compare unequal, objects of the same group equal.
C8_LookupIgnoresCase ==
    /\ \A g \in GroupSet :
           (call.op = "Symmetry" /\ call.label \in CaseVariants(g)) =>
               /\ call.outcome = "ok"
               /\ Target = NewSymmetry(g, loggerClass).obj
               /\ Eq(Target, NewSymmetry(g, loggerClass).obj)
               /\ Eq(NewSymmetry(g, loggerClass).obj, Target)
    /\ (call.op = "__eq__" /\ Supported(sym) /\ Supported(other)) =>
           (call.value <=> sym.group = other.group)

C8_Witness ==
    /\ call.op = "Symmetry"
    /\ call.label = <<"c", "2", "V">>
    /\ call.outcome = "ok"
    /\ sym.group = C2v
    /\ sym.irrep = <<"ALL", "A1", "B1", "B2", "A2">>

DipolesAreTrueIrreps(self) ==
    /\ Len(self.dipole) = 3
    /\ \A k \in 1..3 : self.dipole[k] \in TrueIrreps(self)

\* C9: the dipole list of a supported group has 3 entries, each a true
\* irrep of that group.
C9_DipolesAreTrueIrreps ==
    /\ Supported(sym) => DipolesAreTrueIrreps(sym)
    /\ Supported(other) => DipolesAreTrueIrreps(other)

C9_Witness ==
    /\ Supported(sym)
    /\ sym.group = D2
    /\ sym.dipole = <<"B3", "B2", "B1">>

-----------------------------------------------------------------------------
(* Properties of get_all_symmetry_elements                                  *)

\* a tuple of increasing positions of 1..n: a non-empty subset of them
IsSubsetTuple(comb, n) ==
    /\ comb # <<>>
    /\ \A m \in DOMAIN comb : comb[m] \in 1..n
    /\ \A m \in 1..(Len(comb) - 1) : comb[m] < comb[m + 1]

\* smaller subsets first, subsets of one size in lexicographic order
ComesBefore(a, b) ==
    \/ Len(a) < Len(b)
    \/ /\ Len(a) = Len(b)
       /\ \E p \in DOMAIN a :
              a[p] < b[p] /\ \A q \in 1..(p - 1) : a[q] = b[q]

\* the letters with an odd number of occurrences in the generators picked
OddLetters(gens, comb) ==
    LET occurrences(ch) ==
            UNION {{<<m, p>> : p \in {q \in DOMAIN gens[comb[m]] :
                                          gens[comb[m]][q] = ch}} :
                   m \in DOMAIN comb}
    IN  {ch \in {"X", "Y", "Z"} : Cardinality(occurrences(ch)) % 2 = 1}

\* C10: for n generators the call returns 2^n - 1 strings, the k-th for the
\* k-th non-empty subset of the generators (by size, then in combination
\* order), and each string holds, once each, exactly the letters that occur
\* an odd number of times in the generators of its subset.
C10_ElementsOfAllSubsets ==
    call.op = "get_all_symmetry_elements" =>
        LET gens  == sym.generators
            n     == Len(gens)
            combs == CombinationsBySize(n, 1)
        IN  /\ Len(call.value) = 2 ^ n - 1
            /\ Len(combs) = 2 ^ n - 1
            /\ \A k \in DOMAIN combs : IsSubsetTuple(combs[k], n)
            /\ \A k \in DOMAIN combs : \A m \in DOMAIN combs :
                   k < m => ComesBefore(combs[k], combs[m])
            /\ \A k \in DOMAIN combs :
                   /\ {call.value[k][p] : p \in DOMAIN call.value[k]}
                          = OddLetters(gens, combs[k])
                   /\ Len(call.value[k]) = Cardinality(OddLetters(gens, combs[k]))

C10_Witness ==
    /\ call.op = "get_all_symmetry_elements"
    /\ sym.group = D2
    /\ call.value = << <<"X", "Z">>, <<"Y", "Z">>, <<"X", "Y">> >>

-----------------------------------------------------------------------------
(* TimeIndependentNotebook.group_cap_strengths_by_sym                       *)
(*                                                                          *)
(* A dict is the sequence of its items [key, val] in insertion order, with  *)
(* distinct keys.  Keys and mult are strings as sequences of characters;    *)
(* the records (lists of two strengths) are only compared here.             *)

\* x in list
Contains(list, x) == \E k \in DOMAIN list : list[k] = x

Keys(dict) == {dict[k].key : k \in DOMAIN dict}

\* dict[key], for a key of the dict
Get(dict, key) == dict[CHOOSE k \in DOMAIN dict : dict[k].key = key].val

\* other_list = dict.setdefault(key, []); if x not in other_list: append
SetDefaultAppendOnce(dict, key, x) ==
    IF key \in Keys(dict)
    THEN [k \in DOMAIN dict |->
            IF dict[k].key = key /\ ~Contains(dict[k].val, x)
            THEN [key |-> key, val |-> Append(dict[k].val, x)]
            ELSE dict[k]]
    ELSE Append(dict, [key |-> key, val |-> <<x>>])

LeftWinsUnion(left, right) ==
    left \o SelectSeq(right, LAMBDA item : item.key \notin Keys(left))

\* left | right: the keys of left in their order, then the new keys of
\* right; a key of both keeps its place and takes the value of right
DictUnion(left, right) ==
    [k \in DOMAIN left |->
        IF left[k].key \in Keys(right)
        THEN [key |-> left[k].key, val |-> Get(right, left[k].key)]
        ELSE left[k]]
    \o SelectSeq(right, LAMBDA item : item.key \notin Keys(left))

ALL == <<"A", "L", "L">>

\* f'{mult}ALL'
AllKey(m) == m \o ALL

\* the inner loop over j_sym for one i_strengths: is it missing from the
\* list of a key other than i_sym
MissingSomewhere(dict, i, i_strengths) ==
    \E j \in DOMAIN dict :
        dict[j].key # dict[i].key /\ ~Contains(dict[j].val, i_strengths)

ClassifyAgainstNextKeyOnly(dict, i, i_strengths, acc) ==
    IF i < Len(dict) /\ ~Contains(dict[i + 1].val, i_strengths)
    THEN [all_strengths |-> acc.all_strengths,
          other_sym_strengths |->
              SetDefaultAppendOnce(acc.other_sym_strengths, dict[i].key,
                                   i_strengths)]
    ELSE [all_strengths |->
              IF Contains(acc.all_strengths, i_strengths)
              THEN acc.all_strengths
              ELSE Append(acc.all_strengths, i_strengths),
          other_sym_strengths |-> acc.other_sym_strengths]

ClassifyWithoutDuplicateTest(dict, i, i_strengths, acc) ==
    IF MissingSomewhere(dict, i, i_strengths)
    THEN [all_strengths |-> acc.all_strengths,
          other_sym_strengths |->
              SetDefaultAppendOnce(acc.other_sym_strengths, dict[i].key,
                                   i_strengths)]
    ELSE [all_strengths |-> Append(acc.all_strengths, i_strengths),
          other_sym_strengths |-> acc.other_sym_strengths]

ClassifyNeedsAnotherKey(dict, i, i_strengths, acc) ==
    IF Len(dict) = 1 \/ MissingSomewhere(dict, i, i_strengths)
    THEN [all_strengths |-> acc.all_strengths,
          other_sym_strengths |->
              SetDefaultAppendOnce(acc.other_sym_strengths, dict[i].key,
                                   i_strengths)]
    ELSE [all_strengths |->
              IF Contains(acc.all_strengths, i_strengths)
              THEN acc.all_strengths
              ELSE Append(acc.all_strengths, i_strengths),
          other_sym_strengths |-> acc.other_sym_strengths]

ClassifyWithBucketForEveryKey(dict, i, i_strengths, acc) ==
    LET withKey == IF dict[i].key \in Keys(acc.other_sym_strengths)
                 THEN acc.other_sym_strengths
                 ELSE Append(acc.other_sym_strengths,
                             [key |-> dict[i].key, val |-> <<>>])
    IN  IF MissingSomewhere(dict, i, i_strengths)
        THEN [all_strengths |-> acc.all_strengths,
              other_sym_strengths |->
                  SetDefaultAppendOnce(withKey, dict[i].key, i_strengths)]
        ELSE [all_strengths |->
                  IF Contains(acc.all_strengths, i_strengths)
                  THEN acc.all_strengths
                  ELSE Append(acc.all_strengths, i_strengths),
              other_sym_strengths |-> withKey]

ClassifyFilingSharedRecordsToo(dict, i, i_strengths, acc) ==
    [all_strengths |->
         IF MissingSomewhere(dict, i, i_strengths)
            \/ Contains(acc.all_strengths, i_strengths)
         THEN acc.all_strengths
         ELSE Append(acc.all_strengths, i_strengths),
     other_sym_strengths |->
         SetDefaultAppendOnce(acc.other_sym_strengths, dict[i].key,
                              i_strengths)]

\* the body of the loop over i_strengths: the loop over j_sym, which files
\* the record under i_sym (once) when a list lacks it, and the append to
\* all_strengths (once) when none does
Classify(dict, i, i_strengths, acc) ==
    IF MissingSomewhere(dict, i, i_strengths)
    THEN [all_strengths |-> acc.all_strengths,
          other_sym_strengths |->
              SetDefaultAppendOnce(acc.other_sym_strengths, dict[i].key,
                                   i_strengths)]
    ELSE [all_strengths |->
              IF Contains(acc.all_strengths, i_strengths)
              THEN acc.all_strengths
              ELSE Append(acc.all_strengths, i_strengths),
          other_sym_strengths |-> acc.other_sym_strengths]

RECURSIVE ScanFrom(_, _, _, _)

\* the loops over i_sym and i_strengths, from item i, record k on
ScanFrom(dict, i, k, acc) ==
    IF i > Len(dict) THEN acc
    ELSE IF k > Len(dict[i].val) THEN ScanFrom(dict, i + 1, 1, acc)
    ELSE ScanFrom(dict, i, k + 1, Classify(dict, i, dict[i].val[k], acc))

group_without_empty_all(dict, m) ==
    LET scanned == ScanFrom(dict, 1, 1,
                            [all_strengths |-> <<>>, other_sym_strengths |-> <<>>])
    IN  IF scanned.all_strengths = <<>>
        THEN scanned.other_sym_strengths
        ELSE DictUnion(<<[key |-> AllKey(m), val |-> scanned.all_strengths]>>,
                       scanned.other_sym_strengths)

group_cap_strengths_by_sym(dict, m) ==
    LET scanned == ScanFrom(dict, 1, 1,
                            [all_strengths |-> <<>>, other_sym_strengths |-> <<>>])
    IN  DictUnion(<<[key |-> AllKey(m), val |-> scanned.all_strengths]>>,
                  scanned.other_sym_strengths)

-----------------------------------------------------------------------------
(* group_cap_strengths_by_sym: the arguments and the state machine          *)

MaxKeys == 2

MaxListLen == 2

\* symmetry labels of computed states; the last one is the literal f'1ALL'
SymKeys == {<<"1", "A", "1">>, <<"1", "B", "1">>, <<"1", "A", "L", "L">>}

Mults == {<<"1">>, <<"3">>}

\* records of two formatted strengths
Records == {<<"1.0e-03", "2.0e-03">>, <<"9.0e-04", "0">>, <<"5.0e-03", "0">>}

SeqsUpTo(S, n) == UNION {[1..m -> S] : m \in 0..n}

StrengthLists == SeqsUpTo(Records, MaxListLen)

CapStrengthDicts ==
    {d \in SeqsUpTo([key : SymKeys, val : StrengthLists], MaxKeys) :
        \A j \in DOMAIN d : \A k \in DOMAIN d : d[j].key = d[k].key => j = k}

Called == new_cap_strengths.returned

GroupInit ==
    /\ cap_strengths \in CapStrengthDicts
    /\ mult_prefix \in Mults
    /\ new_cap_strengths = NotReturned
    /\ regrouped = NotReturned
    /\ SymIdle
    /\ CapIdle
    /\ LogIdle
    /\ ErrIdle
    /\ SshIdle
    /\ AstraIdle
    /\ BarIdle
    /\ OpIdle
    /\ NotifIdle

\* new = group_cap_strengths_by_sym(cap_strengths, mult)
Group ==
    /\ ~Called
    /\ new_cap_strengths' =
           Returned(group_cap_strengths_by_sym(cap_strengths, mult_prefix))
    /\ UNCHANGED <<cap_strengths, mult_prefix, regrouped, outsideGrouping>>

\* group_cap_strengths_by_sym({key: new[f'{mult}ALL']}, mult)
Regroup(key) ==
    /\ Called
    /\ AllKey(mult_prefix) \in Keys(new_cap_strengths.value)
    /\ regrouped' =
           [returned |-> TRUE,
            key      |-> key,
            value    |-> group_cap_strengths_by_sym(
                <<[key |-> key,
                   val |-> Get(new_cap_strengths.value, AllKey(mult_prefix))]>>,
                mult_prefix)]
    /\ UNCHANGED <<cap_strengths, mult_prefix, new_cap_strengths, outsideGrouping>>

GroupNext ==
    \/ Group
    \/ \E key \in SymKeys : Regroup(key)

SpecGrouping == GroupInit /\ [][GroupNext]_vars

-----------------------------------------------------------------------------
(* Properties of group_cap_strengths_by_sym                                 *)

R1 == <<"1.0e-03", "2.0e-03">>
R2 == <<"9.0e-04", "0">>
R3 == <<"5.0e-03", "0">>

Key1A1  == <<"1", "A", "1">>
Key1B1  == <<"1", "B", "1">>
Key1ALL == <<"1", "A", "L", "L">>

Out == new_cap_strengths.value

TheAllKey == AllKey(mult_prefix)

\* the record occurs in the list of every key but the i-th
SharedByAllOthers(i, rec) ==
    \A j \in DOMAIN cap_strengths \ {i} : Contains(cap_strengths[j].val, rec)

InBucket(dict, key, rec) == key \in Keys(dict) /\ Contains(Get(dict, key), rec)

NoCollision == TheAllKey \notin Keys(cap_strengths)

SharedExactlyInAll ==
    \A i \in DOMAIN cap_strengths : \A k \in DOMAIN cap_strengths[i].val :
        LET rec == cap_strengths[i].val[k] IN
        /\ InBucket(Out, TheAllKey, rec) <=> SharedByAllOthers(i, rec)
        /\ ~SharedByAllOthers(i, rec) => InBucket(Out, cap_strengths[i].key, rec)

\* C11 as claimed: with at least two keys, a record listed under key S is in
\* the f'{mult}ALL' bucket exactly if every other key lists it too, and is
\* in the bucket of S otherwise.
C11_SharedRecordsGoToAll ==
    (Called /\ Len(cap_strengths) >= 2) => SharedExactlyInAll

\* C11 amended: the same, for arguments none of whose keys is f'{mult}ALL'.
C11_SharedRecordsGoToAllUnlessKeyCollides ==
    (Called /\ Len(cap_strengths) >= 2 /\ NoCollision) => SharedExactlyInAll

C11_Witness ==
    /\ Called
    /\ mult_prefix = <<"1">>
    /\ cap_strengths = <<[key |-> Key1A1, val |-> <<R1, R2>>],
                         [key |-> Key1B1, val |-> <<R1>>]>>
    /\ Out = <<[key |-> Key1ALL, val |-> <<R1>>],
               [key |-> Key1A1, val |-> <<R2>>]>>

HasUnsharedRecord(key) ==
    \E i \in DOMAIN cap_strengths :
        /\ cap_strengths[i].key = key
        /\ \E k \in DOMAIN cap_strengths[i].val :
               ~SharedByAllOthers(i, cap_strengths[i].val[k])

\* C12: besides f'{mult}ALL', the dict returned has the key S exactly if S
\* is a key of the argument with a record that some other key's list lacks;
\* no bucket of such a key is empty.
C12_BucketOnlyForUnsharedRecords ==
    Called =>
        \A key \in (SymKeys \cup Keys(Out)) \ {TheAllKey} :
            /\ key \in Keys(Out) <=> HasUnsharedRecord(key)
            /\ key \in Keys(Out) => Get(Out, key) # <<>>

C12_Witness ==
    /\ Called
    /\ mult_prefix = <<"1">>
    /\ cap_strengths = <<[key |-> Key1A1, val |-> <<R1>>],
                         [key |-> Key1B1, val |-> <<R1>>]>>
    /\ Out = <<[key |-> Key1ALL, val |-> <<R1>>]>>

\* bucket holds each record of list once, in the order of the records'
\* first occurrences in list
IsFirstOccurrencesOf(bucket, list) ==
    /\ {bucket[k] : k \in DOMAIN bucket} = {list[k] : k \in DOMAIN list}
    /\ \A p \in DOMAIN bucket : \A q \in DOMAIN bucket :
           p < q => /\ bucket[p] # bucket[q]
                    /\ ListIndex(list, bucket[p]) < ListIndex(list, bucket[q])

\* C13: for an argument with one key the dict returned has the single key
\* f'{mult}ALL', with the distinct records of that key.
C13_SingleKeyIsAllShared ==
    (Called /\ Len(cap_strengths) = 1) =>
        /\ Len(Out) = 1
        /\ Out[1].key = TheAllKey
        /\ IsFirstOccurrencesOf(Out[1].val, cap_strengths[1].val)

C13_Witness ==
    /\ Called
    /\ cap_strengths = <<[key |-> Key1A1, val |-> <<R2, R2>>]>>
    /\ Out = <<[key |-> TheAllKey, val |-> <<R2>>]>>

\* C14: the dict returned always has the key f'{mult}ALL'; for the empty
\* dict it is {f'{mult}ALL': []}.
C14_AllKeyAlwaysPresent ==
    Called =>
        /\ TheAllKey \in Keys(Out)
        /\ cap_strengths = <<>> => Out = <<[key |-> TheAllKey, val |-> <<>>]>>

C14_Witness ==
    /\ Called
    /\ cap_strengths = <<>>
    /\ Out = <<[key |-> TheAllKey, val |-> <<>>]>>

RECURSIVE Flattened(_)

\* the records in the order in which the two outer loops visit them
Flattened(dict) ==
    IF dict = <<>> THEN <<>> ELSE Head(dict).val \o Flattened(Tail(dict))

NoDuplicates(list) ==
    \A p \in DOMAIN list : \A q \in DOMAIN list : list[p] = list[q] => p = q

InOrderOfFirstOccurrence(bucket, list) ==
    \A p \in DOMAIN bucket : \A q \in DOMAIN bucket :
        p < q => ListIndex(list, bucket[p]) < ListIndex(list, bucket[q])

\* where the records of the bucket returned under key come from: the list of
\* that key if the bucket is the key's own (it has unshared records), and
\* all the lists, in the order of the keys, for the bucket of shared records
SourceOf(key) ==
    IF HasUnsharedRecord(key)
    THEN Get(cap_strengths, key)
    ELSE Flattened(cap_strengths)

\* C15: no bucket of the dict returned holds a record twice, whatever
\* duplicates the argument holds, and the records of a bucket are in the
\* order of their first occurrences in the lists they are taken from.
C15_BucketsDistinctInFirstSeenOrder ==
    Called =>
        \A k \in DOMAIN Out :
            /\ NoDuplicates(Out[k].val)
            /\ InOrderOfFirstOccurrence(Out[k].val, SourceOf(Out[k].key))

C15_Witness ==
    /\ Called
    /\ mult_prefix = <<"1">>
    /\ cap_strengths = <<[key |-> Key1A1, val |-> <<R2, R1>>],
                         [key |-> Key1B1, val |-> <<R3, R3>>]>>
    /\ Out = <<[key |-> Key1ALL, val |-> <<>>],
               [key |-> Key1A1, val |-> <<R2, R1>>],
               [key |-> Key1B1, val |-> <<R3>>]>>

\* C16: grouping the dict {key: bucket}, where bucket is the f'{mult}ALL'
\* bucket of a dict returned, returns {f'{mult}ALL': bucket}: the same
\* records in the same order, and no other key.
C16_RegroupingAllBucketChangesNothing ==
    regrouped.returned =>
        regrouped.value =
            <<[key |-> TheAllKey, val |-> Get(Out, TheAllKey)]>>

C16_Witness ==
    /\ regrouped.returned
    /\ regrouped.key = Key1B1
    /\ Len(cap_strengths) = 2
    /\ Get(Out, TheAllKey) = <<R3, R1>>
    /\ regrouped.value = <<[key |-> TheAllKey, val |-> <<R3, R1>>]>>

\* C17: when a key of the argument is literally f'{mult}ALL' and has a
\* record that another key's list lacks, the entry f'{mult}ALL' of the dict
\* returned is that key's own bucket (its unshared records), and not the
\* bucket of the shared records.
C17_OwnBucketWinsOverSharedBucket ==
    (Called /\ HasUnsharedRecord(TheAllKey)) =>
        LET i == CHOOSE j \in DOMAIN cap_strengths :
                     cap_strengths[j].key = TheAllKey
            Unshared(rec) == ~SharedByAllOthers(i, rec)
            own == SelectSeq(cap_strengths[i].val, Unshared)
        IN  /\ Cardinality({k \in DOMAIN Out : Out[k].key = TheAllKey}) = 1
            /\ IsFirstOccurrencesOf(Get(Out, TheAllKey), own)

C17_Witness ==
    /\ Called
    /\ mult_prefix = <<"1">>
    /\ cap_strengths = <<[key |-> Key1ALL, val |-> <<R1, R2>>],
                         [key |-> Key1A1, val |-> <<R1>>]>>
    /\ Out = <<[key |-> Key1ALL, val |-> <<R2>>]>>

\* every record of every list of the argument is in the f'{mult}ALL' bucket
\* or in the bucket of its key
NothingLost ==
    \A i \in DOMAIN cap_strengths : \A k \in DOMAIN cap_strengths[i].val :
        \/ InBucket(Out, TheAllKey, cap_strengths[i].val[k])
        \/ InBucket(Out, cap_strengths[i].key, cap_strengths[i].val[k])

\* every record returned is a record of the argument: of the list of the
\* bucket's key, or of some list for the f'{mult}ALL' bucket
NothingInvented ==
    \A b \in DOMAIN Out : \A k \in DOMAIN Out[b].val :
        IF Out[b].key = TheAllKey
        THEN \E i \in DOMAIN cap_strengths :
                 Contains(cap_strengths[i].val, Out[b].val[k])
        ELSE InBucket(cap_strengths, Out[b].key, Out[b].val[k])

SharedOrOwnNeverBoth ==
    \A b \in DOMAIN Out : \A k \in DOMAIN Out[b].val :
        Out[b].key # TheAllKey => ~InBucket(Out, TheAllKey, Out[b].val[k])

\* C29: for an argument none of whose keys is f'{mult}ALL', every record of
\* the argument is returned in the f'{mult}ALL' bucket or in the bucket of
\* its key, every record returned is a record of the argument, no record
\* is in f'{mult}ALL' and in the bucket of a key, and no call changes the
\* argument.
C29_NothingLostNothingInvented ==
    /\ []((Called /\ NoCollision) =>
             (NothingLost /\ NothingInvented /\ SharedOrOwnNeverBoth))
    /\ [][cap_strengths' = cap_strengths]_vars

C29_Witness ==
    /\ Called
    /\ mult_prefix = <<"3">>
    /\ cap_strengths = <<[key |-> Key1A1, val |-> <<R1, R3>>],
                         [key |-> Key1B1, val |-> <<R3, R2>>]>>
    /\ Out = <<[key |-> <<"3", "A", "L", "L">>, val |-> <<R3>>],
               [key |-> Key1A1, val |-> <<R1>>],
               [key |-> Key1B1, val |-> <<R2>>]>>

-----------------------------------------------------------------------------
(* TimeIndependentNotebook.get_cap_strengths: the strings                   *)
(*                                                                          *)
(* Paths and strengths are strings as sequences of characters.              *)

\* needle in s
IsSubstring(needle, s) ==
    \E k \in 0..(Len(s) - Len(needle)) :
        SubSeq(s, k + 1, k + Len(needle)) = needle

RECURSIVE Strip(_)

\* str.strip(): blanks removed at both ends
Strip(s) ==
    IF s = <<>> THEN s
    ELSE IF Head(s) = " " THEN Strip(Tail(s))
    ELSE IF s[Len(s)] = " " THEN Strip(SubSeq(s, 1, Len(s) - 1))
    ELSE s

MinImag == <<"M", "i", "n", "I", "m", "a", "g">>
MaxImag == <<"M", "a", "x", "I", "m", "a", "g">>
MinReal == <<"M", "i", "n", "R", "e", "a", "l">>
MaxReal == <<"M", "a", "x", "R", "e", "a", "l">>
cropped == <<"c", "r", "o", "p", "p", "e", "d">>

IsExcludedUnlessCropped(str_path) ==
    \E word \in {MinImag, MaxImag, MinReal, MaxReal} : IsSubstring(word, str_path)

\* any(s in str_path for s in ['MinImag', 'MaxImag', 'MinReal', 'MaxReal',
\* 'cropped'])
IsExcluded(str_path) ==
    \E word \in {MinImag, MaxImag, MinReal, MaxReal, cropped} :
        IsSubstring(word, str_path)

\* the literal head of file_pattern_regex
EvalName == <<"z", "H", "_", "F", "u", "l", "l", "c", "_", "F", "u", "l", "l", "c", "_", "e", "v", "a", "l">>

Digits == <<"0", "1", "2", "3", "4", "5", "6", "7", "8", "9">>

IsDigit(c) == Contains(Digits, c)

IsSign(c) == c \in {"-", "+"}

\* the position after the longest run of digits of s that starts at pos
\* (the greedy \d* ; pos itself if there is none)
AfterDigits(s, pos) ==
    CHOOSE e \in pos..(Len(s) + 1) :
        /\ \A k \in pos..(e - 1) : IsDigit(s[k])
        /\ e <= Len(s) => ~IsDigit(s[e])

\* the position after an optional sign at pos ([-+]?)
AfterSign(s, pos) == IF pos <= Len(s) /\ IsSign(s[pos]) THEN pos + 1 ELSE pos

NoMatch == 0

\* [-+]?\d*\.\d+D[-+]?\d+ matched at pos: the position after the match, or
\* NoMatch.  No character can be given back to make a later part match: the
\* character after a run of digits is no digit, and a sign is neither a
\* digit nor a dot.
AfterNumber(s, pos) ==
    LET dot      == AfterDigits(s, AfterSign(s, pos))
        fracEnd  == AfterDigits(s, dot + 1)
        expStart == AfterSign(s, fracEnd + 1)
        expEnd   == AfterDigits(s, expStart)
    IN  IF /\ dot <= Len(s) /\ s[dot] = "."
           /\ fracEnd > dot + 1
           /\ fracEnd <= Len(s) /\ s[fracEnd] = "D"
           /\ expEnd > expStart
        THEN expEnd
        ELSE NoMatch

\* file_pattern_regex matched with its first character at pos: the two
\* groups, or matched = FALSE
MatchAt(s, pos) ==
    LET g1    == pos + Len(EvalName)
        g1End == IF pos + Len(EvalName) - 1 <= Len(s)
                    /\ SubSeq(s, pos, pos + Len(EvalName) - 1) = EvalName
                 THEN AfterNumber(s, g1) ELSE NoMatch
        g2    == g1End + 1
        g2End == IF g1End # NoMatch /\ g1End <= Len(s) /\ s[g1End] = "-"
                 THEN AfterNumber(s, g2) ELSE NoMatch
    IN  IF g2End # NoMatch
        THEN [matched |-> TRUE,
              groups  |-> <<SubSeq(s, g1, g1End - 1), SubSeq(s, g2, g2End - 1)>>]
        ELSE [matched |-> FALSE, groups |-> <<>>]

RECURSIVE SearchFrom(_, _)

\* the first match that starts at pos or after it
SearchFrom(s, pos) ==
    IF pos > Len(s) THEN [matched |-> FALSE, groups |-> <<>>]
    ELSE IF MatchAt(s, pos).matched THEN MatchAt(s, pos)
    ELSE SearchFrom(s, pos + 1)

\* file_pattern_regex.search(str_path): the leftmost match
Search(s) == SearchFrom(s, 1)

-----------------------------------------------------------------------------
(* get_cap_strengths: the numbers                                           *)
(*                                                                          *)
(* A float is the decimal it was parsed from, (-1)^neg * man * 10^exp with  *)
(* man free of trailing zeros, so that equal floats are equal records.  The *)
(* exponents met are inside the range of a double, and no decimal met lies  *)
(* halfway between two neighbours of two significant digits.                *)

\* str.replace(old, new) for single characters
Replace(s, old, new) == [k \in DOMAIN s |-> IF s[k] = old THEN new ELSE s[k]]

DigitValue(c) == ListIndex(Digits, c)

DigitChar(n) == Digits[n + 1]

RECURSIVE ParseNat(_)

ParseNat(digits) ==
    IF digits = <<>> THEN 0
    ELSE 10 * ParseNat(SubSeq(digits, 1, Len(digits) - 1))
         + DigitValue(digits[Len(digits)])

RECURSIVE Pow10(_)

Pow10(n) == IF n = 0 THEN 1 ELSE 10 * Pow10(n - 1)

RECURSIVE NumDigits(_)

NumDigits(n) == IF n < 10 THEN 1 ELSE 1 + NumDigits(n \div 10)

RECURSIVE ToDigits(_)

ToDigits(n) ==
    IF n < 10 THEN <<DigitChar(n)>>
    ELSE Append(ToDigits(n \div 10), DigitChar(n % 10))

Zero == [neg |-> FALSE, man |-> 0, exp |-> 0]

RECURSIVE Normalize(_, _, _)

Normalize(neg, man, exp) ==
    IF man = 0 THEN Zero
    ELSE IF man % 10 = 0 THEN Normalize(neg, man \div 10, exp + 1)
    ELSE [neg |-> neg, man |-> man, exp |-> exp]

\* float(text), for a text [-+]?\d*\.\d+e[-+]?\d+
Float(text) ==
    LET start    == AfterSign(text, 1)
        dot      == AfterDigits(text, start)
        ePos     == AfterDigits(text, dot + 1)
        expStart == AfterSign(text, ePos + 1)
        frac     == SubSeq(text, dot + 1, ePos - 1)
        exponent == ParseNat(SubSeq(text, expStart, Len(text)))
    IN  Normalize(text[1] = "-",
                  ParseNat(SubSeq(text, start, dot - 1) \o frac),
                  (IF text[ePos + 1] = "-" THEN 0 - exponent ELSE exponent)
                      - Len(frac))

\* f'{x:.1e}' for x # 0: two significant digits, rounded to nearest, and an
\* exponent of at least two digits
FormatE1(x) ==
    LET len     == NumDigits(x.man)
        unit    == IF len > 2 THEN Pow10(len - 2) ELSE 1
        kept    == IF len > 2 THEN x.man \div unit ELSE x.man * Pow10(2 - len)
        rest    == IF len > 2 THEN x.man % unit ELSE 0
        up      == 2 * rest > unit \/ (2 * rest = unit /\ kept % 2 = 1)
        rounded == IF up THEN kept + 1 ELSE kept
        carry   == rounded = 100
        two     == IF carry THEN 10 ELSE rounded
        sci     == x.exp + len - 1 + (IF carry THEN 1 ELSE 0)
        size    == IF sci < 0 THEN 0 - sci ELSE sci
    IN  (IF x.neg THEN <<"-">> ELSE <<>>)
        \o <<DigitChar(two \div 10), ".", DigitChar(two % 10), "e">>
        \o (IF sci < 0 THEN <<"-">> ELSE <<"+">>)
        \o (IF size < 10 THEN <<"0">> ELSE <<>>) \o ToDigits(size)

\* '0' if strength == 0 else f'{strength:.1e}'
Format(x) == IF x = Zero THEN <<"0">> ELSE FormatE1(x)

\* one turn of the loop over match.groups()
Strength(group, return_float) ==
    LET strength == Float(Replace(Strip(group), "D", "e"))
    IN  IF ~return_float THEN Format(strength) ELSE strength

\* the record of one matched path
Strengths(groups, return_float) ==
    [k \in DOMAIN groups |-> Strength(groups[k], return_float)]

-----------------------------------------------------------------------------
(* get_cap_strengths: the function                                          *)
(*                                                                          *)
(* found gives, for each state symmetry, the list called paths in the code: *)
(* the lines of the remote find, or the result of the local glob.  The      *)
(* running directory is set.                                                *)

\* dict.setdefault(key, []).append(x)
SetDefaultAppend(dict, key, x) ==
    IF key \in Keys(dict)
    THEN [k \in DOMAIN dict |->
            IF dict[k].key = key
            THEN [key |-> key, val |-> Append(dict[k].val, x)]
            ELSE dict[k]]
    ELSE Append(dict, [key |-> key, val |-> <<x>>])

\* one turn of the loop over paths
ReadPath(path, state_sym, dict, return_float) ==
    LET str_path == Strip(path)
        match    == Search(str_path)
    IN  IF IsExcluded(str_path) THEN dict
        ELSE IF match.matched
        THEN SetDefaultAppend(dict, state_sym,
                              Strengths(match.groups, return_float))
        ELSE dict

RECURSIVE ReadPathsUntilMismatch(_, _, _, _, _)

\* the loop over paths, left at the first path that does not match
ReadPathsUntilMismatch(list, k, state_sym, dict, return_float) ==
    IF k > Len(list) THEN dict
    ELSE IF ~IsExcluded(Strip(list[k])) /\ ~Search(Strip(list[k])).matched
    THEN dict
    ELSE ReadPathsUntilMismatch(list, k + 1, state_sym,
                                ReadPath(list[k], state_sym, dict, return_float),
                                return_float)

RECURSIVE ReadPaths(_, _, _, _, _)

\* for path in paths, from the k-th path on
ReadPaths(list, k, state_sym, dict, return_float) ==
    IF k > Len(list) THEN dict
    ELSE ReadPaths(list, k + 1, state_sym,
                   ReadPath(list[k], state_sym, dict, return_float),
                   return_float)

RECURSIVE ReadStateSyms(_, _, _, _, _)

\* for state_sym in state_syms, from the i-th symmetry on
ReadStateSyms(syms, found, i, dict, return_float) ==
    IF i > Len(syms) THEN dict
    ELSE ReadStateSyms(syms, found, i + 1,
                       ReadPaths(found[syms[i]], 1, syms[i], dict, return_float),
                       return_float)

get_cap_strengths(syms, found, group_syms, return_float) ==
    IF syms = <<>> THEN <<>>
    ELSE LET mult_      == <<syms[1][1]>>
             strengths  == ReadStateSyms(syms, found, 1, <<>>, return_float)
         IN  IF group_syms
             THEN group_cap_strengths_by_sym(strengths, mult_)
             ELSE strengths

-----------------------------------------------------------------------------
(* get_cap_strengths: the calls                                             *)

MaxPaths == 2

WellFormedPath ==
    <<"d", "/", "z", "H", "_", "F", "u", "l", "l", "c", "_", "F", "u", "l", "l", "c", "_", "e", "v", "a", "l", "1", ".", "0", "D", "-", "0", "2", "-", "2", ".", "0", "D", "-", "0", "3">>

RoundedPath ==
    <<"d", "/", "z", "H", "_", "F", "u", "l", "l", "c", "_", "F", "u", "l", "l", "c", "_", "e", "v", "a", "l", "1", ".", "2", "3", "4", "D", "-", "0", "5", "-", "0", ".", "0", "D", "+", "0", "0">>

CroppedPath ==
    <<"d", "/", "z", "H", "_", "F", "u", "l", "l", "c", "_", "F", "u", "l", "l", "c", "_", "e", "v", "a", "l", "9", ".", "0", "D", "-", "0", "4", "-", "2", ".", "0", "D", "-", "0", "3", "_", "c", "r", "o", "p", "p", "e", "d">>

MaxRealPath ==
    <<"M", "a", "x", "R", "e", "a", "l", "/", "z", "H", "_", "F", "u", "l", "l", "c", "_", "F", "u", "l", "l", "c", "_", "e", "v", "a", "l", "5", ".", "0", "D", "-", "0", "3", "-", "0", ".", "0", "D", "+", "0", "0">>

MalformedPath ==
    <<"d", "/", "z", "H", "_", "F", "u", "l", "l", "c", "_", "F", "u", "l", "l", "c", "_", "e", "v", "a", "l", "X", "-", "Y">>

\* a line of the remote find with blanks around it, signed numbers and a
\* number that rounds up to the next power of ten
SignedPath ==
    <<" ", "d", "/", "z", "H", "_", "F", "u", "l", "l", "c", "_", "F", "u", "l", "l", "c", "_", "e", "v", "a", "l", "-", "9", ".", "9", "6", "D", "-", "0", "3", "-", "+", ".", "5", "D", "+", "0", "1", " ">>

Paths ==
    {WellFormedPath, RoundedPath, CroppedPath, MaxRealPath, MalformedPath,
     SignedPath}

StateSymLists ==
    {<<>>, <<<<"1", "A", "1">>>>, <<<<"1", "A", "1">>, <<"1", "B", "1">>>>}

Range(list) == {list[k] : k \in DOMAIN list}

RECURSIVE NumPaths(_, _, _)

\* how many paths there are under the symmetries from the i-th on
NumPaths(syms, found, i) ==
    IF i > Len(syms) THEN 0
    ELSE Len(found[syms[i]]) + NumPaths(syms, found, i + 1)

\* any symmetries computed, with at most MaxPaths files in all
CapInit ==
    /\ state_syms \in StateSymLists
    /\ paths \in [Range(state_syms) -> SeqsUpTo(Paths, MaxPaths)]
    /\ NumPaths(state_syms, paths, 1) <= MaxPaths
    /\ capCall = NotReturned
    /\ SymIdle
    /\ GroupIdle
    /\ LogIdle
    /\ ErrIdle
    /\ SshIdle
    /\ AstraIdle
    /\ BarIdle
    /\ OpIdle
    /\ NotifIdle

\* self.get_cap_strengths(group_syms, return_float)
GetCapStrengths(group_syms, return_float) ==
    /\ capCall' = [returned     |-> TRUE,
                   group_syms   |-> group_syms,
                   return_float |-> return_float,
                   value        |-> get_cap_strengths(state_syms, paths,
                                                      group_syms, return_float)]
    /\ UNCHANGED <<state_syms, paths, outsideCap>>

CapNext ==
    \E group_syms \in BOOLEAN, return_float \in BOOLEAN :
        GetCapStrengths(group_syms, return_float)

SpecCapStrengths == CapInit /\ [][CapNext]_vars

-----------------------------------------------------------------------------
(* get_cap_strengths: the properties                                        *)

ExcludedWords == {MinImag, MaxImag, MinReal, MaxReal, cropped}

ContainsExcludedWord(path) ==
    \E word \in ExcludedWords : IsSubstring(word, path)

\* text is a number of the pattern: an optional sign, digits or none, a dot,
\* one digit or more, D, an optional sign, one digit or more
IsNumeral(text) ==
    \E dot \in DOMAIN text :
        /\ text[dot] = "."
        /\ \A k \in 1..(dot - 1) : IsDigit(text[k]) \/ (k = 1 /\ IsSign(text[k]))
        /\ \E d \in (dot + 2)..(Len(text) - 1) :
               /\ text[d] = "D"
               /\ \A k \in (dot + 1)..(d - 1) : IsDigit(text[k])
               /\ \A k \in (d + 1)..Len(text) :
                      IsDigit(text[k]) \/ (k = d + 1 /\ IsSign(text[k]))
               /\ IsDigit(text[Len(text)])

\* path holds zH_Fullc_Fullc_eval<A>-<B> with two numbers A and B
WellFormed(path) ==
    \E a \in 1..(Len(path) - Len(EvalName)) :
        /\ SubSeq(path, a, a + Len(EvalName) - 1) = EvalName
        /\ \E dash \in (a + Len(EvalName))..Len(path) :
               /\ path[dash] = "-"
               /\ IsNumeral(SubSeq(path, a + Len(EvalName), dash - 1))
               /\ \E e \in (dash + 1)..Len(path) :
                      IsNumeral(SubSeq(path, dash + 1, e))

Contributes(path) == WellFormed(path) /\ ~ContainsExcludedWord(path)

\* the paths with the excluded ones removed
WithoutExcluded ==
    [state_sym \in DOMAIN paths |->
        SelectSeq(paths[state_sym], LAMBDA path : ~ContainsExcludedWord(path))]

\* the record a path stands for
RecordOf(path) == Strengths(Search(Strip(path)).groups, capCall.return_float)

Contributing(state_sym) == SelectSeq(paths[state_sym], Contributes)

\* one key for each symmetry with a contributing path, in the order of
\* state_syms, holding the records of its contributing paths in path order
ExpectedStrengths ==
    LET keys == SelectSeq(state_syms, LAMBDA state_sym :
                              Contributing(state_sym) # <<>>)
    IN  [i \in DOMAIN keys |->
            [key |-> keys[i],
             val |-> [k \in DOMAIN Contributing(keys[i]) |->
                         RecordOf(Contributing(keys[i])[k])]]]

Text1A1Good == <<<<"1", ".", "0", "e", "-", "0", "2">>, <<"2", ".", "0", "e", "-", "0", "3">>>>

\* C18: a path that contains MinImag, MaxImag, MinReal, MaxReal or cropped
\* contributes no record, whether or not it matches the pattern: the call
\* returns what it returns with those paths removed, and it returns no record
\* at all when every path contains one of the words
C18_ExcludedPathsContributeNothing ==
    capCall.returned =>
        /\ capCall.value =
               get_cap_strengths(state_syms, WithoutExcluded,
                                 capCall.group_syms, capCall.return_float)
        /\ (\A state_sym \in DOMAIN paths :
                \A k \in DOMAIN paths[state_sym] :
                    ContainsExcludedWord(paths[state_sym][k]))
           => \A i \in DOMAIN capCall.value : capCall.value[i].val = <<>>

\* a cropped file that matches the pattern lies beside a well-formed one, and
\* only the well-formed one is read
C18_Witness ==
    /\ capCall.returned
    /\ ~capCall.group_syms /\ ~capCall.return_float
    /\ state_syms = <<Key1A1>>
    /\ paths[Key1A1] = <<CroppedPath, WellFormedPath>>
    /\ WellFormed(CroppedPath)
    /\ capCall.value = <<[key |-> Key1A1, val |-> <<Text1A1Good>>]>>

\* C19: a path that does not match the pattern is skipped and the paths after
\* it, of the same and of later symmetries, are still read: ungrouped, the
\* result holds exactly the records of the well-formed paths that are not
\* excluded, each under its symmetry, in path order; grouped, it is the
\* grouping of that
C19_MalformedPathsSkippedOthersRead ==
    capCall.returned =>
        capCall.value =
            IF state_syms # <<>> /\ capCall.group_syms
            THEN group_cap_strengths_by_sym(ExpectedStrengths,
                                            <<state_syms[1][1]>>)
            ELSE ExpectedStrengths

\* a malformed path comes first under the first of two symmetries, and the
\* path after it is read
C19_Witness ==
    /\ capCall.returned
    /\ ~capCall.group_syms /\ ~capCall.return_float
    /\ state_syms = <<Key1A1, Key1B1>>
    /\ paths[Key1A1] = <<MalformedPath, RoundedPath>>
    /\ paths[Key1B1] = <<>>
    /\ ~WellFormed(MalformedPath)
    /\ capCall.value =
           <<[key |-> Key1A1, val |-> <<<<<<"1", ".", "2", "e", "-", "0", "5">>, <<"0">>>>>>]>>

-----------------------------------------------------------------------------
(* logger_module.setup_logger                                               *)
(*                                                                          *)
(* The root logger is shared with whoever else configures logging: its      *)
(* level and its handlers may be anything when setup_logger is called.      *)

\* the levels setup_logger chooses from, and all levels of logging
Levels == {"DEBUG", "INFO", "WARNING", "ERROR"}

AllLevels == Levels \cup {"NOTSET", "CRITICAL"}

\* the if chain with quiet looked at before verbose
LevelQuietBeforeVerbose(debug, verbose, quiet) ==
    IF debug THEN "DEBUG"
    ELSE IF quiet THEN "ERROR"
    ELSE IF verbose THEN "INFO"
    ELSE "WARNING"

\* the if chain that chooses level
Level(debug, verbose, quiet) ==
    IF debug THEN "DEBUG"
    ELSE IF verbose THEN "INFO"
    ELSE IF quiet THEN "ERROR"
    ELSE "WARNING"

\* ColoredFormatter(...): the detailed format in debug mode
ColoredFormatter(debug) ==
    [class |-> "ColoredFormatter",
     fmt   |-> IF debug
               THEN "%(levelname)s: %(message)s | %(filename)s - %(funcName)s: %(lineno)d"
               ELSE "%(levelname)s: %(message)s"]

\* logging.StreamHandler() as created: level NOTSET, no formatter
StreamHandler == [class |-> "StreamHandler", level |-> "NOTSET", formatter |-> None]

setLevel(handler, level) == [handler EXCEPT !.level = level]

setFormatter(handler, formatter) == [handler EXCEPT !.formatter = formatter]

\* logger.hasHandlers(), for the root logger
hasHandlers(handlers) == handlers # <<>>

\* the handlers of the root logger after setup_logger
SetupHandlers(handlers, debug, verbose, quiet) ==
    LET cleared == IF hasHandlers(handlers) THEN <<>> ELSE handlers
        ch      == setFormatter(setLevel(StreamHandler,
                                         Level(debug, verbose, quiet)),
                                ColoredFormatter(debug))
    IN  Append(cleared, ch)

MaxHandlers == 2

\* handlers someone else may have put on the root logger
ForeignHandlers ==
    {setFormatter(setLevel(StreamHandler, level), formatter) :
        level \in {"NOTSET", "ERROR"},
        formatter \in {None, [class |-> "Formatter", fmt |-> "%(message)s"]}}

LogInit ==
    /\ rootLevel = "WARNING"
    /\ rootHandlers = <<>>
    /\ setupCall = NotReturned
    /\ SymIdle
    /\ GroupIdle
    /\ CapIdle
    /\ ErrIdle
    /\ SshIdle
    /\ AstraIdle
    /\ BarIdle
    /\ OpIdle
    /\ NotifIdle

\* root.addHandler(handler), by other code
AddHandler(handler) ==
    /\ Len(rootHandlers) < MaxHandlers
    /\ rootHandlers' = Append(rootHandlers, handler)
    /\ setupCall' = NotReturned
    /\ UNCHANGED <<rootLevel, outsideLogger>>

\* root.setLevel(level), by other code
SetLevel(level) ==
    /\ level # rootLevel
    /\ rootLevel' = level
    /\ setupCall' = NotReturned
    /\ UNCHANGED <<rootHandlers, outsideLogger>>

\* setup_logger(debug=debug, verbose=verbose, quiet=quiet)
SetupLogger(debug, verbose, quiet) ==
    /\ rootLevel' = Level(debug, verbose, quiet)
    /\ rootHandlers' = SetupHandlers(rootHandlers, debug, verbose, quiet)
    /\ setupCall' = [returned |-> TRUE, debug |-> debug,
                     verbose |-> verbose, quiet |-> quiet]
    /\ UNCHANGED outsideLogger

LogNext ==
    \/ \E handler \in ForeignHandlers : AddHandler(handler)
    \/ \E level \in AllLevels : SetLevel(level)
    \/ \E debug \in BOOLEAN, verbose \in BOOLEAN, quiet \in BOOLEAN :
           SetupLogger(debug, verbose, quiet)

SpecLogger == LogInit /\ [][LogNext]_vars

\* the level the flags ask for
Asked ==
    CASE setupCall.debug   -> "DEBUG"
      [] ~setupCall.debug /\ setupCall.verbose -> "INFO"
      [] ~setupCall.debug /\ ~setupCall.verbose /\ setupCall.quiet -> "ERROR"
      [] OTHER -> "WARNING"

\* C20: when setup_logger has returned, the root logger and the one handler
\* it has installed are at the same level, DEBUG if debug, else INFO if
\* verbose, else ERROR if quiet, else WARNING, and the handler has a
\* formatter
C20_RootAndHandlerAtTheLevelAsked ==
    setupCall.returned =>
        /\ rootLevel = Asked
        /\ Len(rootHandlers) = 1
        /\ rootHandlers[1].level = Asked
        /\ rootHandlers[1].formatter # None

\* verbose and quiet are both set: verbose wins, at the root and at the
\* handler
C20_Witness ==
    /\ setupCall.returned
    /\ ~setupCall.debug /\ setupCall.verbose /\ setupCall.quiet
    /\ rootLevel = "INFO"
    /\ rootHandlers =
           <<[class     |-> "StreamHandler",
              level     |-> "INFO",
              formatter |-> [class |-> "ColoredFormatter",
                             fmt   |-> "%(levelname)s: %(message)s"]]>>

-----------------------------------------------------------------------------
(* logger_module.CustomLogger.error                                         *)
(*                                                                          *)
(* The loggers of the modules have no level of their own: their effective   *)
(* level is the level of the root logger.  A record is emitted when the     *)
(* logger hands it to its handlers.  sys.exit raises SystemExit, which no   *)
(* except clause of the package catches: the process ends with that code.   *)

levelNo(level) ==
    CASE level = "NOTSET"   -> 0
      [] level = "DEBUG"    -> 10
      [] level = "INFO"     -> 20
      [] level = "WARNING"  -> 30
      [] level = "ERROR"    -> 40
      [] level = "CRITICAL" -> 50

\* Logger.isEnabledFor(level), for a logger of the given effective level
isEnabledFor(effective, level) == levelNo(level) >= levelNo(effective)

\* Logger.info, Logger.warning, Logger.error of logging: the record is
\* handled if its level is enabled
LoggerLog(effective, records, levelname, msg) ==
    IF isEnabledFor(effective, levelname)
    THEN Append(records, [levelname |-> levelname, msg |-> msg])
    ELSE records

\* logging.Logger.error: logs and returns
LoggerError(effective, records, msg) ==
    [emitted |-> LoggerLog(effective, records, "ERROR", msg),
     process |-> [alive |-> TRUE]]

\* CustomLogger.error: super().error(msg, ...) and then sys.exit(1)
CustomLoggerError(effective, records, msg) ==
    [emitted |-> LoggerLog(effective, records, "ERROR", msg),
     process |-> [alive |-> FALSE, code |-> 1]]

MaxRecords == 2

Msgs == {"No ssh client", "Username is required."}

\* setup_logger and root.setLevel, while the process runs
ConfigureLogging ==
    /\ process.alive
    /\ \/ \E debug \in BOOLEAN, verbose \in BOOLEAN, quiet \in BOOLEAN :
              SetupLogger(debug, verbose, quiet)
       \/ \E level \in AllLevels : SetLevel(level)

\* logger.info(msg) or logger.warning(msg) by some code of the package
Log(levelname, msg) ==
    /\ process.alive
    /\ caller.pc \in {"idle", "after"}
    /\ Len(emitted) < MaxRecords
    /\ emitted' = LoggerLog(rootLevel, emitted, levelname, msg)
    /\ caller' = [pc |-> "returned", levelname |-> levelname, msg |-> msg]
    /\ UNCHANGED <<process, outsideError>>

\* logger.error(msg) by some code of the package, the logger a CustomLogger
Error(msg) ==
    /\ process.alive
    /\ caller.pc \in {"idle", "after"}
    /\ Len(emitted) < MaxRecords
    /\ LET done == CustomLoggerError(rootLevel, emitted, msg)
       IN  /\ emitted' = done.emitted
           /\ process' = done.process
           /\ caller' = [pc       |-> IF done.process.alive
                                      THEN "returned" ELSE "in_call",
                         levelname |-> "ERROR",
                         msg       |-> msg]
    /\ UNCHANGED outsideError

\* the statement of the caller that follows the logging call
NextStatement ==
    /\ process.alive
    /\ caller.pc = "returned"
    /\ caller' = [caller EXCEPT !.pc = "after"]
    /\ UNCHANGED <<emitted, process, outsideError>>

ErrNext ==
    \/ ConfigureLogging
    \/ \E levelname \in {"INFO", "WARNING"}, msg \in Msgs : Log(levelname, msg)
    \/ \E msg \in Msgs : Error(msg)
    \/ NextStatement

SpecError == LogInit /\ [][ErrNext]_vars

ErrorCalled == caller.pc # "idle" /\ caller.levelname = "ERROR"

ExitedWithCodeOne == ~process.alive /\ process.code = 1

ErrorRecordEmittedLast ==
    /\ emitted # <<>>
    /\ emitted[Len(emitted)] = [levelname |-> "ERROR", msg |-> caller.msg]

-----------------------------------------------------------------------------
(* ssh_client.SshClient.path_exists                                         *)
(*                                                                          *)
(* sftp.stat asks the server; paramiko turns the server's answer into the   *)
(* attributes of the path, into FileNotFoundError (no such file) or into    *)
(* PermissionError (permission denied).                                     *)

RemotePaths == {"/run", "/run/store", "/locked/run"}

\* what the server answers to a stat
StatAnswers == {"ok", "no such file", "permission denied"}

Connected == [type |-> "SSHClient"]

\* sftp.stat(path): the attributes, or the exception raised
SftpStat(fs, path) ==
    CASE fs[path] = "ok"                -> [raised |-> FALSE]
      [] fs[path] = "no such file"      -> [raised |-> TRUE, exc |-> "FileNotFoundError"]
      [] fs[path] = "permission denied" -> [raised |-> TRUE, exc |-> "PermissionError"]

\* try: sftp.stat(str(remote_path)) / except FileNotFoundError: return False
\* / else: return True
TryStat(fs, path) ==
    LET attrs == SftpStat(fs, path)
    IN  IF ~attrs.raised THEN [outcome |-> "returned", value |-> TRUE]
        ELSE IF attrs.exc = "FileNotFoundError"
        THEN [outcome |-> "returned", value |-> FALSE]
        ELSE [outcome |-> "raised", exc |-> attrs.exc]

\* path_exists(remote_path); without a client the logger's error() exits
\* the process
path_exists(cl, fs, path) ==
    IF cl = None THEN [outcome |-> "SystemExit"]
    ELSE TryStat(fs, path)

SshInit ==
    /\ remoteFs \in [RemotePaths -> StatAnswers]
    /\ client \in {None, Connected}
    /\ existsCall = NotReturned
    /\ SymIdle
    /\ GroupIdle
    /\ CapIdle
    /\ LogIdle
    /\ ErrIdle
    /\ AstraIdle
    /\ BarIdle
    /\ OpIdle
    /\ NotifIdle

\* self.path_exists(remote_path)
PathExists(remote_path) ==
    /\ IF existsCall.returned
       THEN existsCall.result.outcome # "SystemExit"
       ELSE TRUE
    /\ existsCall' = [returned |-> TRUE,
                      path     |-> remote_path,
                      result   |-> path_exists(client, remoteFs, remote_path)]
    /\ UNCHANGED <<remoteFs, client, outsideSsh>>

SshNext == \E remote_path \in RemotePaths : PathExists(remote_path)

SpecSsh == SshInit /\ [][SshNext]_vars

\* C22: with a connected client, path_exists returns True if the remote stat
\* succeeds and False in every other case, a permission error included, and
\* raises nothing
C22_PathExistsNeverRaises ==
    (existsCall.returned /\ client = Connected) =>
        /\ existsCall.result.outcome = "returned"
        /\ existsCall.result.value = (remoteFs[existsCall.path] = "ok")

-----------------------------------------------------------------------------
(* main.Astra: get_running_dir                                              *)
(*                                                                          *)
(* A str is [type |-> "str", value |-> ...] and a Path is [type |-> "Path", *)
(* value |-> ...], so that both can be compared with None.  The directories *)
(* are those of the machine the GUI works on: the local one, or the remote  *)
(* one when there is an ssh client.  The object is taken as it is after     *)
(* construction: no running directory, the status bar at 'Ready', no        *)
(* notebook showing, nothing loaded.                                        *)

Str(value) == [type |-> "str", value |-> value]

\* Path(s): Path('') is Path('.')
Path(s) == [type |-> "Path", value |-> IF s.value = "" THEN "." ELSE s.value]

\* Path.resolve(): '.' is the working directory; the other paths are
\* absolute
Resolve(path, dir) == IF path.value = "." THEN [path EXCEPT !.value = dir] ELSE path

\* directory_path.exists(), or ssh_client.path_exists(directory_path)
Exists(path, dir, fs) == Resolve(path, dir).value \in DOMAIN fs

\* mkdir -p
MkDir(path, fs) ==
    [d \in DOMAIN fs \cup {path.value} |-> IF d \in DOMAIN fs THEN fs[d] ELSE {}]

\* self.reload(): the notebooks are reset and load the inputs found in the
\* running directory
Reload(self) == [self EXCEPT !.loaded = self.running_directory]

\* the user is asked and never heard
NeverDeclined(exists, create) == FALSE

\* 'if not path_exists' and, in it, the else branch of 'if create_path'
Declined(exists, create) == ~exists /\ ~create

\* get_running_dir(input_path, new_path): chosen is the answer of the
\* directory dialog, create the answer of create_path_popup, mkdir_ok
\* whether the directory can be created.  Every return is a bare return.
get_running_dir(self, remote, dir, fs, input_path, new_path, chosen, create, mkdir_ok) ==
    LET selected       == IF new_path THEN chosen ELSE input_path
        directory_path == Path(selected)
        exists         == Exists(directory_path, dir, fs)
        same           == [self |-> self, cwd |-> dir, files |-> fs,
                           outcome |-> "returned", value |-> None,
                           reloaded |-> FALSE]
        created        == IF exists THEN fs ELSE MkDir(directory_path, fs)
        resolved       == IF remote THEN directory_path
                          ELSE Resolve(directory_path, dir)
    IN  IF selected = None THEN same
        ELSE IF Declined(exists, create) THEN same
        ELSE IF ~exists /\ ~mkdir_ok
        THEN [same EXCEPT !.outcome = "SystemExit"]
        ELSE [self    |-> Reload([self EXCEPT
                                     !.default_message = resolved.value,
                                     !.running_directory = resolved]),
              cwd     |-> IF remote THEN dir ELSE resolved.value,
              files   |-> created,
              outcome |-> "returned",
              value   |-> None,
              reloaded |-> TRUE]

-----------------------------------------------------------------------------
(* main.Astra: copy_template, show_notebook, hide_notebooks                 *)

\* the folders copy_template removes before it copies
Folders == {"QC", "store"}

\* for folder in ['QC', 'store']: remove it if it is there (found relative to
\* the working directory)
RemoveFolders(dir, fs) == [fs EXCEPT ![dir] = @ \ Folders]

\* shutil.copytree(template_path, running_directory, dirs_exist_ok=True);
\* over ssh the command is 'mv -r', which mv refuses
CopyTree(remote, template_path, running_directory, fs) ==
    IF remote THEN fs
    ELSE [fs EXCEPT ![running_directory.value] = @ \cup fs[template_path.value]]

\* 'if not self.running_directory' and 'if not template_path'
Falsy(path) == path = None

\* the part of copy_template after 'if not template_path: return'
CopyFrom(template_path, got, remote) ==
    LET removed == RemoveFolders(got.cwd, got.files)
    IN  [got EXCEPT
            !.self  = Reload(got.self),
            !.files = CopyTree(remote, template_path,
                               got.self.running_directory, removed)]

\* copy_template(): overwrite is the answer of overwrite_warning_popup, the
\* other answers are those get_running_dir asks for
copy_template(self, remote, dir, fs, overwrite, chosen, create, mkdir_ok) ==
    LET same == [self |-> self, cwd |-> dir, files |-> fs,
                 outcome |-> "returned", value |-> None, reloaded |-> FALSE]
        got  == get_running_dir(self, remote, dir, fs,
                                None, TRUE, chosen, create, mkdir_ok)
    IN  IF Falsy(self.running_directory) THEN same
        ELSE IF ~overwrite THEN same
        ELSE IF got.outcome = "SystemExit" THEN got
        ELSE IF Falsy(got.value) THEN got
        ELSE CopyFrom(got.value, got, remote)

\* hide_notebooks()
hide_notebooks(self) ==
    [self EXCEPT !.showing = [k \in DOMAIN self.showing |-> FALSE]]

\* the test of show_notebook without the running directory
MayShowWhatever(self, notebook_ind) == TRUE

\* if self.running_directory or notebook_ind == 0
MayShow(self, notebook_ind) ==
    self.running_directory # None \/ notebook_ind = 0

\* show_notebook(notebook_ind)
show_notebook(self, notebook_ind) ==
    IF MayShow(self, notebook_ind)
    THEN IF self.showing[notebook_ind + 1] THEN self
         ELSE [hide_notebooks(self) EXCEPT !.showing[notebook_ind + 1] = TRUE]
    ELSE self

-----------------------------------------------------------------------------
(* main.Astra: the calls                                                    *)

Home == "/home/u"

RunDir == "/home/u/run"

TemplateDir == "/home/u/template"

NewDir == "/home/u/new"

Dirs == {RunDir, TemplateDir, NewDir}

\* what the directory dialog answers: the local one '' when cancelled, the
\* remote one None
DialogAnswers(remote) ==
    {Str(d) : d \in Dirs} \cup (IF remote THEN {None} ELSE {Str("")})

NumNotebooks == 4

NewAstra ==
    [type              |-> "Astra",
     running_directory |-> None,
     default_message   |-> "Ready",
     showing           |-> [k \in 1..NumNotebooks |-> FALSE],
     loaded            |-> None]

\* the directories at the start: NewDir does not exist
StartFiles ==
    [d \in {Home, RunDir, TemplateDir} |->
        CASE d = Home        -> {"run", "template"}
          [] d = RunDir      -> {"QC", "old.inp"}
          [] d = TemplateDir -> {"store", "template.inp"}]

AstraInit ==
    /\ ssh \in BOOLEAN
    /\ astra = NewAstra
    /\ cwd = Home
    /\ files = StartFiles
    /\ astraCall = NotReturned
    /\ SymIdle
    /\ GroupIdle
    /\ CapIdle
    /\ LogIdle
    /\ ErrIdle
    /\ SshIdle
    /\ BarIdle
    /\ OpIdle
    /\ NotifIdle

AstraRunning ==
    IF astraCall.returned THEN astraCall.outcome # "SystemExit" ELSE TRUE

\* what a call leaves behind: its arguments, the answers given, the state
\* before it and how it ended
Done(op, selected, create, overwrite, done) ==
    [returned  |-> TRUE,
     op        |-> op,
     selected  |-> selected,
     existed   |-> IF selected = None THEN FALSE
                   ELSE Exists(Path(selected), cwd, files),
     create    |-> create,
     overwrite |-> overwrite,
     before    |-> [astra |-> astra, cwd |-> cwd, files |-> files],
     outcome   |-> done.outcome,
     reloaded  |-> done.reloaded]

\* self.get_running_dir(input_path, new_path)
GetRunningDir(input_path, new_path, chosen, create, mkdir_ok) ==
    /\ AstraRunning
    /\ LET done == get_running_dir(astra, ssh, cwd, files, input_path,
                                   new_path, chosen, create, mkdir_ok)
       IN  /\ astra' = done.self
           /\ cwd' = done.cwd
           /\ files' = done.files
           /\ astraCall' = Done("get_running_dir",
                                IF new_path THEN chosen ELSE input_path,
                                create, FALSE, done)
    /\ UNCHANGED <<ssh, outsideAstra>>

\* self.copy_template()
CopyTemplate(overwrite, chosen, create, mkdir_ok) ==
    /\ AstraRunning
    /\ LET done == copy_template(astra, ssh, cwd, files,
                                 overwrite, chosen, create, mkdir_ok)
       IN  /\ astra' = done.self
           /\ cwd' = done.cwd
           /\ files' = done.files
           /\ astraCall' = Done("copy_template", chosen, create, overwrite, done)
    /\ UNCHANGED <<ssh, outsideAstra>>

\* self.show_notebook(notebook_ind)
ShowNotebook(notebook_ind) ==
    /\ AstraRunning
    /\ astra' = show_notebook(astra, notebook_ind)
    /\ astraCall' = [returned |-> TRUE, op |-> "show_notebook",
                     notebook_ind |-> notebook_ind,
                     before |-> [astra |-> astra, cwd |-> cwd, files |-> files],
                     outcome |-> "returned", reloaded |-> FALSE]
    /\ UNCHANGED <<ssh, cwd, files, outsideAstra>>

\* self.hide_notebooks()
HideNotebooks ==
    /\ AstraRunning
    /\ astra' = hide_notebooks(astra)
    /\ astraCall' = [returned |-> TRUE, op |-> "hide_notebooks",
                     before |-> [astra |-> astra, cwd |-> cwd, files |-> files],
                     outcome |-> "returned", reloaded |-> FALSE]
    /\ UNCHANGED <<ssh, cwd, files, outsideAstra>>

AstraNext ==
    \/ \E input_path \in {None} \cup {Str(d) : d \in Dirs},
          create \in BOOLEAN, mkdir_ok \in BOOLEAN :
           GetRunningDir(input_path, FALSE, None, create, mkdir_ok)
    \/ \E chosen \in DialogAnswers(ssh), create \in BOOLEAN, mkdir_ok \in BOOLEAN :
           GetRunningDir(Str(""), TRUE, chosen, create, mkdir_ok)
    \/ \E overwrite \in BOOLEAN, chosen \in DialogAnswers(ssh),
          create \in BOOLEAN, mkdir_ok \in BOOLEAN :
           CopyTemplate(overwrite, chosen, create, mkdir_ok)
    \/ \E notebook_ind \in 0..(NumNotebooks - 1) : ShowNotebook(notebook_ind)
    \/ HideNotebooks

SpecAstra == AstraInit /\ [][AstraNext]_vars

-----------------------------------------------------------------------------
(* main.Astra: the properties                                               *)

Before == astraCall.before

CalledOp(op) == astraCall.returned /\ astraCall.op = op

\* an existing directory was chosen in the dialog
ChoseExisting ==
    /\ astraCall.selected # None
    /\ astraCall.selected.value # ""
    /\ astraCall.existed

StateAsBefore ==
    /\ astra = Before.astra
    /\ cwd = Before.cwd
    /\ files = Before.files

\* C23: copy_template, called with a running directory set, the overwrite
\* warning confirmed and an existing template directory chosen, leaves the
\* entries of the template in the running directory that was set before the
\* call, and that directory is still the running directory
C23_TemplateCopiedIntoRunningDir ==
    (/\ CalledOp("copy_template")
     /\ Before.astra.running_directory # None
     /\ astraCall.overwrite
     /\ ChoseExisting) =>
        /\ Before.files[astraCall.selected.value]
               \subseteq files[Before.astra.running_directory.value]
        /\ astra.running_directory = Before.astra.running_directory

\* C27: when get_running_dir gets no path (None), or a path that does not
\* exist which the user declines to create, it returns with the running
\* directory, the default message, the notebooks, the working directory and
\* the directories as they were, and without a reload
C27_NoPathOrDeclinedChangesNothing ==
    (/\ CalledOp("get_running_dir")
     /\ \/ astraCall.selected = None
        \/ ~astraCall.existed /\ ~astraCall.create) =>
        /\ StateAsBefore
        /\ ~astraCall.reloaded
        /\ astraCall.outcome = "returned"

\* a running directory is set, a new directory is chosen and not created
C27_Witness ==
    /\ CalledOp("get_running_dir")
    /\ astraCall.selected = Str(NewDir)
    /\ ~astraCall.existed /\ ~astraCall.create
    /\ astra.running_directory = [type |-> "Path", value |-> RunDir]
    /\ astra.loaded = astra.running_directory
    /\ NewDir \notin DOMAIN files
    /\ StateAsBefore

Showing(self) == {k \in DOMAIN self.showing : self.showing[k]}

\* C28: at most one notebook is showing; a notebook other than the home
\* notebook becomes showing only with a running directory set; and a
\* show_notebook refused for lack of one leaves all showing flags as they
\* were
C28_AtMostOneNotebookShowing ==
    /\ astra # None => Cardinality(Showing(astra)) <= 1
    /\ CalledOp("show_notebook") =>
           /\ \A k \in Showing(astra) \ Showing(Before.astra) :
                  k = 1 \/ Before.astra.running_directory # None
           /\ (astraCall.notebook_ind # 0
               /\ Before.astra.running_directory = None)
              => astra.showing = Before.astra.showing

\* the third notebook is shown in place of the home notebook
C28_Witness ==
    /\ CalledOp("show_notebook")
    /\ astraCall.notebook_ind = 2
    /\ Before.astra.showing = <<TRUE, FALSE, FALSE, FALSE>>
    /\ astra.running_directory # None
    /\ astra.showing = <<FALSE, FALSE, TRUE, FALSE>>

-----------------------------------------------------------------------------
(* statusbar_module.StatusBar                                               *)
(*                                                                          *)
(* A call of a method yields the status bar after it, the messages it put   *)
(* on the label and the number of timers it scheduled with root.after.      *)

\* StatusBar(root, default_text)
NewStatusBar(default_text) ==
    [text                  |-> default_text,
     default_message       |-> default_text,
     message_queue         |-> <<>>,
     is_displaying_message |-> FALSE]

Effect(self, shown, scheduled) ==
    [self |-> self, shown |-> shown, scheduled |-> scheduled]

\* list.pop(): the last element
Pop(list) ==
    [item |-> list[Len(list)], rest |-> SubSeq(list, 1, Len(list) - 1)]

\* show_next_message that forgets root.after
show_next_message_without_timer(self) ==
    IF self.message_queue # <<>>
    THEN Effect([self EXCEPT !.text = Pop(self.message_queue).item,
                             !.message_queue = Pop(self.message_queue).rest],
                <<Pop(self.message_queue).item>>, 0)
    ELSE Effect(self, <<>>, 0)

\* show_next_message()
show_next_message(self) ==
    IF self.message_queue # <<>>
    THEN LET popped == Pop(self.message_queue)
         IN  Effect([self EXCEPT !.text = popped.item,
                                 !.message_queue = popped.rest],
                    <<popped.item>>, 1)
    ELSE Effect(self, <<>>, 0)

\* show_message(message, overwrite_default_text)
show_message(self, message, overwrite_default_text) ==
    LET named  == IF overwrite_default_text
                  THEN [self EXCEPT !.default_message = message]
                  ELSE self
        queued == [named EXCEPT !.message_queue = Append(@, message)]
    IN  IF ~queued.is_displaying_message
        THEN show_next_message([queued EXCEPT !.is_displaying_message = TRUE])
        ELSE Effect(queued, <<>>, 0)

\* reset_message()
reset_message(self) ==
    IF self.message_queue # <<>>
    THEN show_next_message(self)
    ELSE Effect([self EXCEPT !.text = self.default_message,
                             !.is_displaying_message = FALSE],
                <<>>, 0)

MaxMessages == 3

Messages == {"Saved", "Running", "Done"}

BarInit ==
    /\ bar = NewStatusBar("Ready")
    /\ timers = 0
    /\ requested = <<>>
    /\ displayed = <<>>
    /\ SymIdle
    /\ GroupIdle
    /\ CapIdle
    /\ LogIdle
    /\ ErrIdle
    /\ SshIdle
    /\ AstraIdle
    /\ OpIdle
    /\ NotifIdle

\* self.statusbar.show_message(message, overwrite_default_text)
ShowMessage(message, overwrite_default_text) ==
    /\ Len(requested) < MaxMessages
    /\ LET done == show_message(bar, message, overwrite_default_text)
       IN  /\ bar' = done.self
           /\ timers' = timers + done.scheduled
           /\ displayed' = displayed \o done.shown
    /\ requested' = Append(requested, message)
    /\ UNCHANGED outsideStatusBar

\* a timer set by root.after fires: reset_message()
TimerFires ==
    /\ timers > 0
    /\ LET done == reset_message(bar)
       IN  /\ bar' = done.self
           /\ timers' = timers - 1 + done.scheduled
           /\ displayed' = displayed \o done.shown
    /\ UNCHANGED <<requested, outsideStatusBar>>

BarNext ==
    \/ \E message \in Messages, overwrite_default_text \in BOOLEAN :
           ShowMessage(message, overwrite_default_text)
    \/ TimerFires

SpecStatusBar == BarInit /\ [][BarNext]_vars

\* every timer set by root.after fires in the end
SpecStatusBarTimersFire == SpecStatusBar /\ WF_vars(TimerFires)

-----------------------------------------------------------------------------
(* StatusBar: the properties                                                *)

\* nothing waits in the queue and no message is on display
NoMessagePending == bar.message_queue = <<>> /\ timers = 0

AtRest == bar.text = bar.default_message /\ ~bar.is_displaying_message

Count(list, x) == Cardinality({k \in DOMAIN list : list[k] = x})

\* each of the first n messages requested has been displayed
AllShown(n) ==
    /\ Len(requested) >= n
    /\ \A message \in Messages :
           Count(displayed, message) >= Count(SubSeq(requested, 1, n), message)

\* C24: if every timer fires, every message passed to show_message gets
\* displayed, the bar comes to have no message pending again and again, and
\* whenever no message is pending the label shows the default message of
\* that moment and is_displaying_message is False
C24_EveryMessageShownThenDefault ==
    /\ [](NoMessagePending => AtRest)
    /\ \A n \in 0..MaxMessages : (Len(requested) = n) ~> AllShown(n)
    /\ []<>NoMessagePending

\* three messages were requested, the second as the new default; all three
\* have been displayed and the label shows the new default
C24_Witness ==
    /\ requested = <<"Saved", "Running", "Done">>
    /\ \A message \in Messages : Count(displayed, message) = 1
    /\ NoMessagePending
    /\ bar.default_message = "Running"
    /\ bar.text = "Running"
    /\ ~bar.is_displaying_message

IsPrefixOf(short, long) ==
    Len(short) <= Len(long) /\ short = SubSeq(long, 1, Len(short))

\* C25: the messages are displayed in the order in which show_message was
\* called
C25_WaitingMessagesShownInCallOrder == IsPrefixOf(displayed, requested)

-----------------------------------------------------------------------------
(* logger_module.log_operation                                              *)
(*                                                                          *)
(* The wrapper runs four statements in a row: logger.info of                *)
(* the Started message, the call of the decorated function with the         *)
(* arguments of the wrapper, logger.info of the Finished message, and the   *)
(* return of the result.  The timeline holds what has happened, in order.   *)
(* The module logger has no level of its own: a record is emitted if INFO   *)
(* is enabled at the level of the root logger.                              *)

Started(operation) == [text |-> "Started", operation |-> operation]

Finished(operation) == [text |-> "Finished", operation |-> operation]

\* logger.info(msg, operation, stacklevel=2)
LoggerInfo(effective, events, msg) ==
    Append(events, [kind    |-> "info",
                    msg     |-> msg,
                    emitted |-> isEnabledFor(effective, "INFO")])

\* the call of func by a wrapper that passes no keyword arguments
PassNoKeywords(given) == [given EXCEPT !.kwargs = <<>>]

\* the call of func: the arguments of the wrapper, as given
Pass(given) == given

\* the body of the decorated function, called with the arguments passed
FuncCalled(events, passed) ==
    Append(events, [kind |-> "body", args |-> passed])

\* return of a wrapper that drops the result
ReturnNone(result) == None

\* return result
Return(result) == result

\* wrapper, line by line: w is the call in progress, with the level of the
\* logger when the call was made
wrapper_logs_started(effective, operation, given) ==
    [call   |-> [pc        |-> "started",
                 level     |-> effective,
                 operation |-> operation,
                 given     |-> given],
     events |-> LoggerInfo(effective, <<>>, Started(operation))]

\* result = func(...); outcome is what the body does: it returns
\* a value or raises
wrapper_calls_func(w, events, outcome) ==
    [call   |-> IF outcome.raises
                THEN [w EXCEPT !.pc = "raised"]
                ELSE [pc        |-> "called",
                      level     |-> w.level,
                      operation |-> w.operation,
                      given     |-> w.given,
                      result    |-> outcome.value],
     events |-> FuncCalled(events, Pass(w.given))]

wrapper_logs_finished(effective, w, events) ==
    [call   |-> [w EXCEPT !.pc = "finished"],
     events |-> LoggerInfo(effective, events, Finished(w.operation))]

wrapper_returns(w, events) ==
    [call   |-> [pc        |-> "returned",
                 level     |-> w.level,
                 operation |-> w.operation,
                 given     |-> w.given,
                 result    |-> w.result,
                 value     |-> Return(w.result)],
     events |-> Append(events, [kind |-> "return"])]

Operations == {"copying template", "hiding notebooks"}

\* positional and keyword arguments of a call
Arguments ==
    {[args |-> <<>>, kwargs |-> <<>>],
     [args |-> <<Str("self")>>, kwargs |-> <<>>],
     [args |-> <<Str("self")>>, kwargs |-> <<[key |-> "title", val |-> Str("Run")]>>]}

\* what a body does
Outcomes ==
    {[raises |-> FALSE, value |-> None],
     [raises |-> FALSE, value |-> Str("ok")],
     [raises |-> TRUE]}

OpInit ==
    /\ wrapped = [pc |-> "idle"]
    /\ timeline = <<>>
    /\ SymIdle
    /\ GroupIdle
    /\ CapIdle
    /\ LogIdle
    /\ ErrIdle
    /\ SshIdle
    /\ AstraIdle
    /\ BarIdle
    /\ NotifIdle

Between == wrapped.pc \in {"idle", "returned", "raised"}

\* setup_logger, between two calls of decorated functions
SetupBetweenCalls ==
    /\ Between
    /\ \E debug \in BOOLEAN, verbose \in BOOLEAN, quiet \in BOOLEAN :
           SetupLogger(debug, verbose, quiet)

\* a decorated function is called: the wrapper starts
CallWrapper(operation, given) ==
    /\ Between
    /\ LET step == wrapper_logs_started(rootLevel, operation, given)
       IN  /\ wrapped' = step.call
           /\ timeline' = step.events
    /\ UNCHANGED outsideOperation

CallFunc(outcome) ==
    /\ wrapped.pc = "started"
    /\ LET step == wrapper_calls_func(wrapped, timeline, outcome)
       IN  /\ wrapped' = step.call
           /\ timeline' = step.events
    /\ UNCHANGED outsideOperation

LogFinished ==
    /\ wrapped.pc = "called"
    /\ LET step == wrapper_logs_finished(rootLevel, wrapped, timeline)
       IN  /\ wrapped' = step.call
           /\ timeline' = step.events
    /\ UNCHANGED outsideOperation

ReturnResult ==
    /\ wrapped.pc = "finished"
    /\ LET step == wrapper_returns(wrapped, timeline)
       IN  /\ wrapped' = step.call
           /\ timeline' = step.events
    /\ UNCHANGED outsideOperation

OpNext ==
    \/ SetupBetweenCalls
    \/ \E operation \in Operations, given \in Arguments :
           CallWrapper(operation, given)
    \/ \E outcome \in Outcomes : CallFunc(outcome)
    \/ LogFinished
    \/ ReturnResult

SpecOperation == OpInit /\ [][OpNext]_vars

\* what a call that has come to its end has done, in order; the records are
\* emitted if INFO was enabled when the call was made
WholeTimeline(level, operation, given) ==
    <<[kind |-> "info", msg |-> Started(operation),
       emitted |-> level \in {"NOTSET", "DEBUG", "INFO"}],
      [kind |-> "body", args |-> given],
      [kind |-> "info", msg |-> Finished(operation),
       emitted |-> level \in {"NOTSET", "DEBUG", "INFO"}],
      [kind |-> "return"]>>

\* the number of steps made at each position of the wrapper
StepsAt(pc) ==
    CASE pc = "started"  -> 1
      [] pc = "called"   -> 2
      [] pc = "raised"   -> 2
      [] pc = "finished" -> 3
      [] pc = "returned" -> 4

\* C26: in every call of a decorated function the Started record is logged
\* before the body runs, the body receives the arguments of the call, the
\* Finished record is logged after the body has returned and before the
\* wrapper returns, and the wrapper returns the result of the body
C26_StartedBodyFinishedResult ==
    wrapped.pc # "idle" =>
        /\ timeline = SubSeq(WholeTimeline(wrapped.level, wrapped.operation,
                                           wrapped.given),
                             1, StepsAt(wrapped.pc))
        /\ wrapped.pc = "returned" => wrapped.value = wrapped.result

\* setup_logger(verbose=True), then a call with keyword arguments whose body
\* returns 'ok': both records emitted around the body, 'ok' returned
C26_Witness ==
    /\ wrapped.pc = "returned"
    /\ rootLevel = "INFO" /\ wrapped.level = "INFO"
    /\ wrapped.given.kwargs # <<>>
    /\ wrapped.value = Str("ok")
    /\ Len(timeline) = 4
    /\ timeline[1].emitted /\ timeline[1].msg.text = "Started"
    /\ timeline[2].kind = "body"
    /\ timeline[3].emitted /\ timeline[3].msg.text = "Finished"

-----------------------------------------------------------------------------
(* notification_module.Notification                                         *)
(*                                                                          *)
(* Strings are sequences of characters.  The file is None if it does not    *)
(* exist and its text otherwise.  An attribute the object does not have is  *)
(* Unset.  save and load are decorated with log_operation, which passes     *)
(* the arguments and the result through.                                    *)

ntfy == <<"n", "t", "f", "y">>

email == <<"e", "m", "a", "i", "l">>

Newline == "\n"

TextFile(text) == [type |-> "file", text |-> text]

Unset == [set |-> FALSE]

Set(value) == [set |-> TRUE, value |-> value]

RECURSIVE Split(_)

\* text.split('\n')
Split(text) ==
    IF \A k \in DOMAIN text : text[k] # Newline THEN <<text>>
    ELSE LET at == CHOOSE k \in DOMAIN text :
                       /\ text[k] = Newline
                       /\ \A j \in 1..(k - 1) : text[j] # Newline
         IN  <<SubSeq(text, 1, at - 1)>>
             \o Split(SubSeq(text, at + 1, Len(text)))

\* Notification.load: method and string from the first two lines of the
\* file, if there is a file
load(self, file) ==
    IF file = None THEN self
    ELSE LET lines == Split(file.text)
         IN  [self EXCEPT !.method = Strip(lines[1]),
                          !.string = Strip(lines[2])]

\* Notification.__init__
NewNotification(file) ==
    load([method |-> <<>>, string |-> <<>>, notification_string |-> Unset],
         file)

\* Notification.save: a warning and nothing else for an empty string;
\* otherwise the attribute notification_string is set and the file written
save(self, file, notification_string) ==
    IF notification_string = <<>>
    THEN [self |-> self, file |-> file, warned |-> TRUE]
    ELSE [self   |-> [self EXCEPT
                         !.notification_string = Set(notification_string)],
          file   |-> TextFile(self.method \o <<Newline>> \o notification_string),
          warned |-> FALSE]

\* Notification.command: the curl or mail command with self.string in it;
\* for another method logger.error, which ends the process
command(self, title) ==
    IF self.method = ntfy
    THEN [outcome |-> "returned",
          value   |-> [program |-> "curl", title |-> title,
                       target |-> self.string]]
    ELSE IF self.method = email
    THEN [outcome |-> "returned",
          value   |-> [program |-> "mail", title |-> title,
                       target |-> self.string]]
    ELSE [outcome |-> "SystemExit", code |-> 1]

\* update_label of the settings window: an empty method is ntfy
update_label(self, method) ==
    [self EXCEPT !.method = IF method = <<>> THEN ntfy ELSE method]

Methods == {<<>>, ntfy, email}

\* topics and addresses, as entry.get().strip() gives them
Targets == {<<"t", "1">>, <<"a", "@", "b">>}

Titles == {"TISE", "TDSE"}

\* no file, a file written by save, or one written by hand with blanks
NotifFiles ==
    {None, TextFile(ntfy \o <<" ", Newline, " ", "t", "1", Newline>>)}
    \cup {TextFile(m \o <<Newline>> \o t) : m \in Methods, t \in Targets}

NotifInit ==
    /\ notifFile \in NotifFiles
    /\ notification = NewNotification(notifFile)
    /\ notifCall = NotReturned
    /\ SymIdle
    /\ GroupIdle
    /\ CapIdle
    /\ LogIdle
    /\ ErrIdle
    /\ SshIdle
    /\ AstraIdle
    /\ BarIdle
    /\ OpIdle

\* the process runs: no call of command has ended it
NotifRunning ==
    IF notifCall.returned /\ notifCall.op = "command"
    THEN notifCall.result.outcome # "SystemExit"
    ELSE TRUE

\* a radio button of the settings window, or the window opening
UpdateLabel(method) ==
    /\ NotifRunning
    /\ notification' = update_label(notification, method)
    /\ notifCall' = [returned |-> TRUE, op |-> "update_label"]
    /\ UNCHANGED <<notifFile, outsideNotification>>

\* the Save button: self.notification.save(entry.get().strip())
Save(notification_string) ==
    /\ NotifRunning
    /\ LET saved == save(notification, notifFile, notification_string)
       IN  /\ notification' = saved.self
           /\ notifFile' = saved.file
           /\ notifCall' = [returned |-> TRUE,
                            op       |-> "save",
                            string   |-> notification_string,
                            before   |-> [self |-> notification,
                                          file |-> notifFile],
                            warned   |-> saved.warned]
    /\ UNCHANGED outsideNotification

Load ==
    /\ NotifRunning
    /\ notification' = load(notification, notifFile)
    /\ notifCall' = [returned |-> TRUE, op |-> "load"]
    /\ UNCHANGED <<notifFile, outsideNotification>>

Command(title) ==
    /\ NotifRunning
    /\ notifCall' = [returned |-> TRUE,
                     op       |-> "command",
                     result   |-> command(notification, title)]
    /\ UNCHANGED <<notification, notifFile, outsideNotification>>

NotifNext ==
    \/ \E method \in Methods : UpdateLabel(method)
    \/ \E notification_string \in Targets \cup {<<>>} : Save(notification_string)
    \/ Load
    \/ \E title \in Titles : Command(title)

SpecNotification == NotifInit /\ [][NotifNext]_vars

SaveReturned == notifCall.returned /\ notifCall.op = "save"

\* the target that command puts in the command line, for a supported method
TargetUsed == command(notification, "TISE").value.target

\* C30: right after save(s) with s not empty, command uses s as the topic
\* or address, and a fresh load of the file gives s; save with the empty
\* string leaves the file, the method and the target as they were
C30_SavedTargetIsTheTargetUsed ==
    SaveReturned =>
        IF notifCall.string # <<>>
        THEN /\ notification.method \in {ntfy, email} =>
                    TargetUsed = notifCall.string
             /\ NewNotification(notifFile).string = notifCall.string
        ELSE /\ notifFile = notifCall.before.file
             /\ notification.method = notifCall.before.self.method
             /\ notification.string = notifCall.before.self.string

=============================================================================
